---- MODULE Spec2Model ----
(***************************************************************************)
(* AskWebAI: the ingestion pipeline (bounded recursive crawler, chunker,   *)
(* namespace / cache discipline) and the /api/ask request handler, as      *)
(* implemented by the server variants src/unnamed/part_001 (Gemini + Redis *)
(* cache, "p1") and src/unnamed/part_002 (Mistral + call governor, "p2").  *)
(*                                                                         *)
(* Strings are modelled by the structure the code looks at: a URL is the   *)
(* record of its WHATWG components, a text is the sequence of the lengths  *)
(* of its space-separated words, an href is the record of the components   *)
(* of the attribute value.                                                 *)
(***************************************************************************)
EXTENDS Integers, Sequences, FiniteSets, TLC

(* ------------------------------------------------------------------ *)
(* Program constants                                                    *)
(* ------------------------------------------------------------------ *)
MAX_DEPTH == 3
MAX_RETRIES == 3
CACHE_EXPIRY_SECONDS == 3600
TOP_K == 5
MIN_CHUNK_LENGTH == 100
MIN_CONTEXT_LENGTH == 100
DEFAULT_MAX_BYTES == 10000
DEFAULT_MAX_TOKENS == 6000
CHUNKS_PER_PAGE == 8
BATCH_SIZE == 5
RETRY_DELAY == 1000
RATE_LIMIT_COOLDOWN == 60000
CHUNK_SLEEP == 100

(* ------------------------------------------------------------------ *)
(* Bounds of the model                                                  *)
(* ------------------------------------------------------------------ *)
NumPages == 6
MaxRequests == 2
MaxFails == 2
MaxApiFaults == 1

Variants == {"p1", "p2"}
Questions == {"q1", "q2"}
PageIds == 1..NumPages

(* ------------------------------------------------------------------ *)
(* Values                                                               *)
(* ------------------------------------------------------------------ *)
Null == [isNull |-> TRUE]

RECURSIVE SumSeq(_)
SumSeq(s) == IF s = <<>> THEN 0 ELSE Head(s) + SumSeq(Tail(s))

Min(a, b) == IF a < b THEN a ELSE b

\* Math.ceil(n / 4) on a non-negative length
CeilDiv4(n) == (n + 3) \div 4

\* s without its first n elements / the first n elements of s (Array.prototype.slice)
Take(s, n) == SubSeq(s, 1, Min(n, Len(s)))
Drop(s, n) == SubSeq(s, Min(n, Len(s)) + 1, Len(s))

\* insertion-ordered Set of JavaScript, Array.from(set): first occurrences in order
RECURSIVE Dedup(_)
Dedup(s) ==
    IF s = <<>> THEN <<>>
    ELSE LET r == Dedup(SubSeq(s, 1, Len(s) - 1))
             x == s[Len(s)]
         IN IF \E i \in 1..Len(r) : r[i] = x THEN r ELSE Append(r, x)

(* ------------------------------------------------------------------ *)
(* URLs                                                                 *)
(* ------------------------------------------------------------------ *)
\* A parsed absolute URL (the string parsed.toString() stands for)
MkUrl(scheme, hostname, port, n, ext, query, hash) ==
    [scheme |-> scheme, hostname |-> hostname, port |-> port,
     n |-> n, ext |-> ext, query |-> query, hash |-> hash]

\* An href attribute value; scheme "" is a relative reference, n = 0 is an
\* empty path part (the reference is only a query and/or a fragment, or empty)
MkHref(scheme, hostname, port, n, ext, query, hash) ==
    [scheme |-> scheme, hostname |-> hostname, port |-> port,
     n |-> n, ext |-> ext, query |-> query, hash |-> hash]

Rel(n) == MkHref("", "", "", n, "", "", "")
EmptyHref == MkHref("", "", "", 0, "", "", "")

skipExtensions == {".pdf", ".jpg", ".png", ".gif", ".css", ".js"}
skipProtocols == {"mailto:", "tel:", "ftp:", "file:"}

\* new URL(link, baseUrl): Null stands for the TypeError of an unparsable link
ResolveUrl(link, base) ==
    IF link.scheme = "bad:" THEN Null
    ELSE IF link.scheme # "" THEN
        MkUrl(link.scheme, link.hostname, link.port, link.n, link.ext, link.query, link.hash)
    ELSE IF link.n = 0 /\ link.query = "" THEN
        [base EXCEPT !.hash = link.hash]
    ELSE IF link.n = 0 THEN
        [base EXCEPT !.query = link.query, !.hash = link.hash]
    ELSE
        MkUrl(base.scheme, base.hostname, base.port, link.n, link.ext, link.query, link.hash)

normalizeUrl(baseUrl, href) ==
    IF href = Null \/ href = EmptyHref THEN Null
    ELSE LET link == [href EXCEPT !.query = "", !.hash = ""]
             parsed == ResolveUrl(link, baseUrl)
         IN IF link.ext \in skipExtensions \/ link.scheme \in skipProtocols THEN Null
            ELSE IF parsed = Null THEN Null
            ELSE IF parsed.hostname # baseUrl.hostname THEN Null
            ELSE parsed

(* ------------------------------------------------------------------ *)
(* Request input, URL validation, namespace                             *)
(* ------------------------------------------------------------------ *)
\* req.body.url: given = FALSE is a missing or empty value; prefix is the
\* scheme prefix the string starts with ("" when it has none); junk says the
\* string holds a "%..," sequence; parseable says new URL() accepts the rest
MkRaw(given, prefix, junk, parseable, hostname, n, query, hash) ==
    [given |-> given, prefix |-> prefix, junk |-> junk, parseable |-> parseable,
     hostname |-> hostname, n |-> n, query |-> query, hash |-> hash]

RawMissing == MkRaw(FALSE, "", FALSE, FALSE, "", 0, "", "")
RawBad == MkRaw(TRUE, "", FALSE, FALSE, "", 0, "", "")
RawA == MkRaw(TRUE, "", TRUE, TRUE, "site.test", 1, "", "")
RawB == MkRaw(TRUE, "https://", FALSE, TRUE, "site.test", 2, "?v", "")

\* validateAndFormatUrl without the throw: whatever was given is returned as a URL
validateAndFormatUrlLenient(raw) ==
    MkUrl(IF raw.prefix = "http://" THEN "http:" ELSE "https:",
          raw.hostname, "", raw.n, "", raw.query, raw.hash)

\* Null stands for the thrown 'Invalid URL format' error
validateAndFormatUrl(raw) ==
    LET cleanUrl == [raw EXCEPT !.junk = FALSE]
        prefixed == IF cleanUrl.prefix \notin {"http://", "https://"}
                    THEN [cleanUrl EXCEPT !.prefix = "https://"]
                    ELSE cleanUrl
    IN IF ~prefixed.parseable THEN Null
       ELSE MkUrl(IF prefixed.prefix = "http://" THEN "http:" ELSE "https:",
                  prefixed.hostname, "", prefixed.n, "", prefixed.query, prefixed.hash)

\* hostname.replace(/\./g, '_')
DotsToUnderscores(hostname) ==
    CASE hostname = "site.test" -> "site_test"
      [] hostname = "other.test" -> "other_test"
      [] OTHER -> hostname

HashSpace == 64

StrCode(x) ==
    CASE x = "" -> 0
      [] x = "https:" -> 1
      [] x = "http:" -> 2
      [] x = "site.test" -> 3
      [] x = "other.test" -> 4
      [] x = "?v" -> 5
      [] x = "#top" -> 6
      [] OTHER -> 7

\* crypto.createHash('md5').update(url).digest('hex').substring(0, 10): a
\* fixed function of the characters of the URL string into a finite space
Md5Prefix(url) ==
    (StrCode(url.scheme) + 3 * StrCode(url.hostname) + 5 * StrCode(url.port)
       + 7 * url.n + 11 * StrCode(url.ext) + 13 * StrCode(url.query)
       + 17 * StrCode(url.hash)) % HashSpace

\* a namespace that leaves the hash out
createNamespaceFromUrlDomainOnly(url) ==
    [domain |-> DotsToUnderscores(url.hostname), hash |-> 0]

\* the template string domain + '_' + hash, as the pair of its two parts
createNamespaceFromUrl(url) ==
    [domain |-> DotsToUnderscores(url.hostname), hash |-> Md5Prefix(url)]

(* ------------------------------------------------------------------ *)
(* Texts and chunking                                                   *)
(* ------------------------------------------------------------------ *)
\* chunk.length of a chunk made of the given words joined by one space
ChunkLength(c) == IF c = <<>> THEN 0 ELSE SumSeq(c) + Len(c) - 1

\* part_001: byte-size word accumulation (ASCII text: one byte per character)
RECURSIVE chunkTextBytesLoop(_, _, _, _, _)
chunkTextBytesLoop(words, maxBytes, chunks, currentChunk, currentSize) ==
    IF words = <<>> THEN
        IF Len(currentChunk) > 0 THEN Append(chunks, currentChunk) ELSE chunks
    ELSE LET word == Head(words)
             wordSize == word + 1
         IN IF currentSize + wordSize > maxBytes
            THEN chunkTextBytesLoop(Tail(words), maxBytes,
                     Append(chunks, currentChunk), <<word>>, wordSize)
            ELSE chunkTextBytesLoop(Tail(words), maxBytes,
                     chunks, Append(currentChunk, word), currentSize + wordSize)

chunkTextBytes(text, maxBytes) == chunkTextBytesLoop(text, maxBytes, <<>>, <<>>, 0)

\* part_002: word accumulation under an estimated token budget
RECURSIVE chunkTextTokensLoop(_, _, _, _, _)
chunkTextTokensLoop(words, maxTokens, chunks, currentChunk, currentTokens) ==
    IF words = <<>> THEN
        IF Len(currentChunk) > 0 THEN Append(chunks, currentChunk) ELSE chunks
    ELSE LET word == Head(words)
             wordTokens == CeilDiv4(word)
         IN IF currentTokens + wordTokens > maxTokens /\ Len(currentChunk) > 0
            THEN chunkTextTokensLoop(Tail(words), maxTokens,
                     Append(chunks, currentChunk), <<word>>, wordTokens)
            ELSE chunkTextTokensLoop(Tail(words), maxTokens,
                     chunks, Append(currentChunk, word), currentTokens + wordTokens)

chunkTextTokens(text, maxTokens) == chunkTextTokensLoop(text, maxTokens, <<>>, <<>>, 0)

chunkText(v, text) ==
    IF v = "p1" THEN chunkTextBytes(text, DEFAULT_MAX_BYTES)
    ELSE chunkTextTokens(text, DEFAULT_MAX_TOKENS)

\* index.js, part_000: sentence accumulation; a text is the sequence of its
\* characters (ASCII: one byte per character)
Terminators == {".", "!", "?"}

\* text.split(/[.!?]+/): the pieces between the runs of terminators, the empty
\* pieces before a leading run and after a trailing run included
SplitSentences(text) ==
    LET n == Len(text)
        IsTerminator(i) == text[i] \in Terminators
        \* where a piece starts: at the first character and after each run
        starts == {1} \cup { i \in 2..(n + 1) :
                               IsTerminator(i - 1) /\ (i = n + 1 \/ ~IsTerminator(i)) }
        \* where the piece starting at s ends: before the next run or at the end
        EndOf(s) == CHOOSE e \in (s - 1)..n :
                       /\ \A k \in s..e : ~IsTerminator(k)
                       /\ (e = n \/ IsTerminator(e + 1))
        StartNo(k) == CHOOSE s \in starts : Cardinality({ t \in starts : t < s }) = k - 1
    IN [k \in 1..Cardinality(starts) |-> SubSeq(text, StartNo(k), EndOf(StartNo(k)))]

\* String.prototype.trim
RECURSIVE Trim(_)
Trim(s) ==
    IF s = <<>> THEN s
    ELSE IF Head(s) = " " THEN Trim(Tail(s))
    ELSE IF s[Len(s)] = " " THEN Trim(SubSeq(s, 1, Len(s) - 1))
    ELSE s

SentenceSeparator == <<".", " ">>

RECURSIVE chunkTextBySizeLoop(_, _, _, _)
chunkTextBySizeLoop(sentences, maxSize, chunks, currentChunk) ==
    IF sentences = <<>> THEN
        IF currentChunk # <<>> THEN Append(chunks, currentChunk) ELSE chunks
    ELSE LET sentence == Trim(Head(sentences))
             potentialChunk == IF currentChunk # <<>>
                               THEN currentChunk \o SentenceSeparator \o sentence
                               ELSE sentence
             chunkSize == Len(potentialChunk)
         IN IF sentence = <<>> THEN
                chunkTextBySizeLoop(Tail(sentences), maxSize, chunks, currentChunk)
            ELSE IF chunkSize > maxSize THEN
                chunkTextBySizeLoop(Tail(sentences), maxSize,
                    IF currentChunk # <<>> THEN Append(chunks, currentChunk) ELSE chunks,
                    sentence)
            ELSE chunkTextBySizeLoop(Tail(sentences), maxSize, chunks, potentialChunk)

\* a chunker that puts all sentences into one chunk whatever its size
chunkTextBySizeUnbounded(text, maxSize) ==
    chunkTextBySizeLoop(SplitSentences(text), maxSize + Len(text) + 1, <<>>, <<>>)

chunkTextBySize(text, maxSize) ==
    chunkTextBySizeLoop(SplitSentences(text), maxSize, <<>>, <<>>)

(* ------------------------------------------------------------------ *)
(* The crawled site (the environment of the crawl)                      *)
(* ------------------------------------------------------------------ *)
\* mainContent extracted from page n, as the lengths of its words
SiteText(n) ==
    CASE n = 1 -> <<60, 60>>
      [] n = 2 -> <<23990, 120, 30>>
      [] n = 5 -> <<100>>
      [] n = 6 -> <<50>>
      [] OTHER -> <<70, 70>>

RECURSIVE RelRange(_, _)
RelRange(a, b) == IF a > b THEN <<>> ELSE <<Rel(a)>> \o RelRange(a + 1, b)

\* the href attributes of the <a> elements of page n, in document order: a
\* cyclic graph with self links, repeated links, off-site and non-content links
SiteHrefs(n) ==
    IF n = 1
    THEN <<MkHref("mailto:", "", "", 0, "", "", ""),
           Null,
           MkHref("", "", "", 2, ".pdf", "", ""),
           MkHref("https:", "other.test", "", 1, "", "", ""),
           MkHref("", "", "", 0, "", "", "#top")>>
         \o RelRange(2, NumPages)
         \o <<MkHref("https:", "site.test", "", 2, "", "?v", "")>>
    ELSE (IF n < NumPages THEN <<Rel(n + 1)>> ELSE <<>>)
         \o <<MkHref("", "", "", 1, "", "", "#top"), Rel(n),
              MkHref("bad:", "", "", 0, "", "", "")>>

\* internalLinks of scrapeWebsite: the normalized links, first occurrences
RECURSIVE NormalizeAll(_, _)
NormalizeAll(baseUrl, hrefs) ==
    IF hrefs = <<>> THEN <<>>
    ELSE LET normalizedUrl == normalizeUrl(baseUrl, Head(hrefs))
         IN (IF normalizedUrl = Null THEN <<>> ELSE <<normalizedUrl>>)
            \o NormalizeAll(baseUrl, Tail(hrefs))

\* the URLs a crawl can reach: the pages of the site and the page with a query
CrawlableUrls ==
    { MkUrl("https:", "site.test", "", n, "", q, "") : n \in PageIds, q \in {"", "?v"} }

\* what scrapeWebsite returns as internalLinks for each URL
ScrapedLinks == [u \in CrawlableUrls |-> Dedup(NormalizeAll(u, SiteHrefs(u.n)))]

InternalLinks(u) == ScrapedLinks[u]

(* ------------------------------------------------------------------ *)
(* State                                                                *)
(* ------------------------------------------------------------------ *)
VARIABLES
    variant,      \* which server file runs: "p1" (part_001) or "p2" (part_002)
    failsLeft,    \* per page: how many of its next fetch attempts fail
    flaky,        \* the external service that may fail in this behaviour
    apiFaults,    \* how many more failures the flaky service may produce
    now,          \* Date.now(), in ms
    cache,        \* Redis: set of entries [ns, question, response, expiry]
    store,        \* Pinecone index: sequence of upserted records
    pc,           \* position of the request handler
    req,          \* req.body of the request being handled
    url,          \* the validated url of the handler
    namespace,    \* the namespace of the handler
    reported,     \* vectorCount reported by describeIndexStats, -1 before
    visitedUrls,  \* the visitedUrls Set of the ingestion run
    stack,        \* call stack of ingestRecursive activations
    context,      \* the context returned by chat
    response,     \* the response written to res
    calls,        \* external calls issued for the current request, in order
    thrown,       \* errors raised inside scrapeWebsite / the chunk loop in this run
    scraped,      \* URLs for which scrapeWebsite returned a page in this run
    reqCount,     \* requests received so far
    upsertIds,    \* the ids of the records given to index.upsert in this run, in order
    applied,      \* a library function under test: its name, arguments, result
    apiCallTracker, \* part_002: the global {calls, lastCall} of the rate limiter
    callers,      \* part_002: the activations of rateLimitedApiCall, per caller
    issued,       \* part_002: the calls sent to the remote API in the last minute
    remote,       \* part_002: how the remote API answers
    eventLoop     \* the request whose handler waits at an await while another runs

vars == <<variant, failsLeft, flaky, apiFaults, now, cache, store, pc, req,
          url, namespace, reported, visitedUrls, stack, context, response, calls,
          thrown, scraped, reqCount, upsertIds, applied, apiCallTracker, callers,
          issued, remote, eventLoop>>

\* the variables no step of the request handler writes
envVars == <<variant, flaky, applied, apiCallTracker, callers, issued, remote, eventLoop>>

NoUrl == MkUrl("", "", "", 0, "", "", "")
NoNamespace == [domain |-> "", hash |-> 0]
NoAnswer == [kind |-> "none", question |-> "", context |-> <<>>]
NoResponse ==
    [status |-> 0, success |-> FALSE, error |-> "", answer |-> NoAnswer,
     namespace |-> NoNamespace, url |-> NoUrl, processedAt |-> 0]

ErrorResponse(status, error) ==
    [NoResponse EXCEPT !.status = status, !.error = error]

AnswerResponse(answer, ns, u, t) ==
    [status |-> 200, success |-> TRUE, error |-> "", answer |-> answer,
     namespace |-> ns, url |-> u, processedAt |-> t]

\* the variables of one activation of the handler, before any request
IdleHandler ==
    [pc |-> "idle", req |-> [url |-> RawMissing, question |-> ""], url |-> NoUrl,
     namespace |-> NoNamespace, reported |-> -1, visitedUrls |-> {}, stack |-> <<>>,
     context |-> <<>>, response |-> NoResponse, calls |-> <<>>, thrown |-> {},
     scraped |-> {}, upsertIds |-> <<>>]

\* one request at a time: nothing waits
EventLoopIdle == [waiting |-> IdleHandler, switches |-> 0]

\* an external call: its kind, the URL or page it is about, the namespace it
\* addresses, and the number of ingestRecursive activations below the caller
\* (-1 for a call issued by the handler itself or by chat / generateAnswer)
Call(kind, u, ns, level) == [kind |-> kind, url |-> u, ns |-> ns, level |-> level]

\* no library function is under test
NotApplied == [fn |-> "none", args |-> <<>>, out |-> <<>>]

\* Date.now() - t for a time t, which the rate limiter only ever compares
\* with 2000 and 60000: every difference of a minute or more is kept as 60000
RATE_WINDOW == 60000
requestsPerMinute == 30
minDelayBetweenCalls == 2000

\* nothing has gone through rateLimitedApiCall: calls = [], lastCall = 0
FreshTracker == [calls |-> <<>>, lastCall |-> RATE_WINDOW]

\* the rate limiter as the request handler model leaves it
GovernorIdle ==
    /\ apiCallTracker = FreshTracker
    /\ callers = <<>>
    /\ issued = <<>>
    /\ remote = [mode |-> "up", faultsLeft |-> 0]

Requests ==
    { [url |-> RawMissing, question |-> "q1"],
      [url |-> RawA, question |-> ""],
      [url |-> RawBad, question |-> "q1"],
      [url |-> RawA, question |-> "q1"],
      [url |-> RawA, question |-> "q2"],
      [url |-> RawB, question |-> "q1"] }

\* at most one page of the site is flaky, and it is one of the two start
\* pages: its first MaxFails fetches fail, the later ones succeed
FailPlans ==
    { f \in [PageIds -> {0, MaxFails}] :
        /\ Cardinality({n \in PageIds : f[n] > 0}) <= 1
        /\ \A n \in PageIds : f[n] > 0 => n <= 2 }

Services == {"none", "extract", "embed", "upsert", "stats", "query", "generate", "redis"}

Init ==
    /\ variant \in Variants
    /\ failsLeft \in FailPlans
    /\ flaky \in Services
    /\ apiFaults = MaxApiFaults
    /\ now = 0
    /\ cache = {}
    /\ store = <<>>
    /\ pc = "idle"
    /\ req = [url |-> RawMissing, question |-> ""]
    /\ url = NoUrl
    /\ namespace = NoNamespace
    /\ reported = -1
    /\ visitedUrls = {}
    /\ stack = <<>>
    /\ context = <<>>
    /\ response = NoResponse
    /\ calls = <<>>
    /\ thrown = {}
    /\ scraped = {}
    /\ reqCount = 0
    /\ upsertIds = <<>>
    /\ eventLoop = EventLoopIdle
    /\ applied = NotApplied
    /\ GovernorIdle

\* the service may fail now
CanFail(service) == flaky = service /\ apiFaults > 0

(* ------------------------------------------------------------------ *)
(* The external stores                                                  *)
(* ------------------------------------------------------------------ *)
\* index.namespace(ns): the records of one partition, in insertion order
Partition(ns) == SelectSeq(store, LAMBDA r : r.ns = ns)

\* stats.namespaces[ns].vectorCount (0 when the namespace is absent)
VectorCount(ns) == Len(Partition(ns))

\* redis.get with a key that no redis.set has written
CacheLookupMiss(ns, question) == {}

\* redis.get(key) with key = namespace + ":" + question
CacheLookup(ns, question) ==
    { e \in cache : e.ns = ns /\ e.question = question /\ now < e.expiry }

\* redis.set without a usable expiry: the entry outlives the TTL
CacheSetLongLived(ns, question, r, ttl) ==
    { e \in cache : ~(e.ns = ns /\ e.question = question) }
      \cup { [ns |-> ns, question |-> question, response |-> r,
              expiry |-> now + 2 * ttl * 1000] }

\* redis.set(key, value, 'EX', ttl)
CacheSet(ns, question, r, ttl) ==
    { e \in cache : ~(e.ns = ns /\ e.question = question) }
      \cup { [ns |-> ns, question |-> question, response |-> r,
              expiry |-> now + ttl * 1000] }

(* ------------------------------------------------------------------ *)
(* The crawl: scrapeWebsite and ingestRecursive                         *)
(* ------------------------------------------------------------------ *)
Frame(u, depth) ==
    [url |-> u, depth |-> depth, retryCount |-> 0, phase |-> "scrape", i |-> 0, li |-> 0]

Top == stack[Len(stack)]
Pop == SubSeq(stack, 1, Len(stack) - 1)
ReplaceTop(f) == [stack EXCEPT ![Len(stack)] = f]

\* the recursive call passing its own depth on
ChildDepthSame(depth) == depth

\* the recursive call starting over at depth 0
ChildDepthReset(depth) == 0

\* the depth argument of the recursive call: depth + 1
ChildDepth(depth) == depth + 1

\* ingestRecursive following every internal link of the page
maxInternalLinksUnlimited(v) == NumPages + 1

maxInternalLinks(v) == IF v = "p1" THEN 5 ELSE 3
LinkSleep(v) == IF v = "p1" THEN 1000 ELSE 2000

\* first line of ingestRecursive: the call returns at once
IngestSkips(depth) == depth > MAX_DEPTH

\* scrapeWebsite without the visited check
ScrapeSkipsDepthOnly(u, visited, depth, retryCount) == depth > MAX_DEPTH

\* first line of scrapeWebsite: the call returns null without fetching
ScrapeSkips(u, visited, depth, retryCount) == u \in visited \/ depth > MAX_DEPTH

\* the chunk loop without its length test
StorableAlways(chunk) == TRUE

\* part_001: the chunk is sent to embedding (not shorter than the floor)
Storable(chunk) == ~(ChunkLength(chunk) < MIN_CHUNK_LENGTH)

\* the chunks of a page
ContentChunks(v, u) == chunkText(v, SiteText(u.n))

\* part_002: contentChunks.slice(0, 8).filter(chunk => chunk.length > 100)
LimitedChunks(u) ==
    SelectSeq(Take(ContentChunks("p2", u), CHUNKS_PER_PAGE),
              LAMBDA c : ChunkLength(c) > MIN_CHUNK_LENGTH)

\* part_001: index (from 0) of the first chunk at or after i that is not skipped
RECURSIVE NextStorable(_, _)
NextStorable(chunks, i) ==
    IF i >= Len(chunks) \/ Storable(chunks[i + 1]) THEN i
    ELSE NextStorable(chunks, i + 1)

\* the chunk loop without its try/catch
ChunkErrorUncaught(v) == FALSE

\* whether the chunk loop of ingestRecursive runs inside a try/catch
ChunkErrorCaught(v) == TRUE

\* index.upsert without .namespace(namespace): the default namespace
UpsertNamespaceDefault(ns) == NoNamespace

\* the namespace ingestRecursive upserts into / chat queries
UpsertNamespace(ns) == ns
QueryNamespace(ns) == ns

\* an id without the ordinal of the chunk
RecordIdNoOrdinal(ns, t, i) == <<ns, t, 0>>

\* the template string namespace + '_' + Date.now() + '_' + i, as its three parts
RecordId(ns, t, i) == <<ns, t, i>>

StoreRecord(ns, by, u, i, chunk, t) ==
    [ns |-> ns, by |-> by, ts |-> t, i |-> i, url |-> u, content |-> chunk]

\* index.upsert: a record with the id of a stored record replaces it
Upsert(st, rec) ==
    Append(SelectSeq(st, LAMBDA r : ~(r.ns = rec.ns /\ r.ts = rec.ts /\ r.i = rec.i)), rec)

RECURSIVE UpsertAll(_, _)
UpsertAll(st, recs) ==
    IF recs = <<>> THEN st ELSE UpsertAll(Upsert(st, Head(recs)), Tail(recs))

\* an error escapes ingestRecursive and reaches the catch of the handler
Propagate ==
    /\ stack' = <<>>
    /\ pc' = "done"
    /\ response' = ErrorResponse(500, "Failed to process request")

\* one invocation of scrapeWebsite by the activation on top of the stack
ScrapeStep ==
    /\ pc = "ingest" /\ stack # <<>> /\ Top.phase = "scrape"
    /\ LET f == Top
           u == f.url
           contentChunks == ContentChunks("p1", u)
           first == NextStorable(contentChunks, 0)
           retryOrGiveUp ==
               IF f.retryCount < MAX_RETRIES
               THEN /\ stack' = ReplaceTop([f EXCEPT !.retryCount = f.retryCount + 1])
                    /\ now' = now + RETRY_DELAY * (f.retryCount + 1)
               ELSE /\ stack' = Pop
                    /\ now' = now
       IN IF ScrapeSkips(u, visitedUrls, f.depth, f.retryCount)
          THEN /\ stack' = Pop
               /\ UNCHANGED <<visitedUrls, calls, failsLeft, apiFaults, thrown, scraped, now>>
          ELSE /\ visitedUrls' = visitedUrls \cup {u}
               /\ calls' = Append(calls, Call("fetch", u, NoNamespace, Len(stack) - 1))
               /\ \/ /\ failsLeft[u.n] > 0
                     /\ failsLeft' = [failsLeft EXCEPT ![u.n] = failsLeft[u.n] - 1]
                     /\ thrown' = thrown \cup {[url |-> u, kind |-> "fetch", i |-> 0]}
                     /\ retryOrGiveUp
                     /\ UNCHANGED <<apiFaults, scraped>>
                  \/ /\ failsLeft[u.n] = 0
                     /\ CanFail("extract")
                     /\ apiFaults' = apiFaults - 1
                     /\ thrown' = thrown \cup {[url |-> u, kind |-> "extract", i |-> 0]}
                     /\ retryOrGiveUp
                     /\ UNCHANGED <<failsLeft, scraped>>
                  \/ /\ failsLeft[u.n] = 0
                     /\ scraped' = scraped \cup {u}
                     /\ IF variant = "p2"
                        THEN IF LimitedChunks(u) = <<>>
                             THEN stack' = Pop
                             ELSE stack' = ReplaceTop([f EXCEPT !.phase = "chunks"])
                        ELSE IF first >= Len(contentChunks)
                             THEN stack' = ReplaceTop([f EXCEPT !.phase = "links"])
                             ELSE stack' = ReplaceTop([f EXCEPT !.phase = "chunks",
                                                                !.i = first])
                     /\ UNCHANGED <<failsLeft, apiFaults, thrown, now>>
    /\ UNCHANGED <<envVars, upsertIds, cache, store, pc, req, url, namespace, reported,
                   context, response, reqCount>>

\* part_001: the next iteration of the chunk loop that embeds a chunk
ChunkStepP1 ==
    /\ pc = "ingest" /\ stack # <<>> /\ Top.phase = "chunks" /\ variant = "p1"
    /\ LET f == Top
           contentChunks == ContentChunks("p1", f.url)
           chunk == contentChunks[f.i + 1]
           j == NextStorable(contentChunks, f.i + 1)
           next == IF j >= Len(contentChunks)
                   THEN [f EXCEPT !.phase = "links", !.i = j]
                   ELSE [f EXCEPT !.i = j]
           embed == Call("embed", f.url, NoNamespace, Len(stack) - 1)
           upsert == Call("upsert", f.url, UpsertNamespace(namespace), Len(stack) - 1)
           raised(kind) ==
               /\ CanFail(kind)
               /\ apiFaults' = apiFaults - 1
               /\ thrown' = thrown \cup {[url |-> f.url, kind |-> kind, i |-> f.i]}
               /\ IF ChunkErrorCaught("p1")
                  THEN /\ stack' = ReplaceTop(next)
                       /\ UNCHANGED <<pc, response>>
                  ELSE Propagate
               /\ UNCHANGED <<store, now, upsertIds>>
       IN \/ /\ calls' = Append(calls, embed)
             /\ raised("embed")
          \/ /\ calls' = calls \o <<embed, upsert>>
             /\ raised("upsert")
          \/ /\ calls' = calls \o <<embed, upsert>>
             /\ store' = Upsert(store, StoreRecord(UpsertNamespace(namespace),
                                    namespace, f.url, f.i, chunk, now))
             /\ upsertIds' = Append(upsertIds,
                                    RecordId(UpsertNamespace(namespace), now, f.i))
             /\ now' = now + CHUNK_SLEEP
             /\ stack' = ReplaceTop(next)
             /\ UNCHANGED <<apiFaults, thrown, pc, response>>
    /\ UNCHANGED <<envVars, failsLeft, cache, req, url, namespace, reported,
                   visitedUrls, scraped, context, reqCount>>

\* part_002: one batch of the chunk loop of ingestRecursive
ChunkStepP2 ==
    /\ pc = "ingest" /\ stack # <<>> /\ Top.phase = "chunks" /\ variant = "p2"
    /\ LET f == Top
           limitedChunks == LimitedChunks(f.url)
           batch == SubSeq(limitedChunks, f.i + 1, Min(f.i + BATCH_SIZE, Len(limitedChunks)))
           next == IF f.i + BATCH_SIZE >= Len(limitedChunks)
                   THEN [f EXCEPT !.phase = "links", !.i = f.i + BATCH_SIZE]
                   ELSE [f EXCEPT !.i = f.i + BATCH_SIZE]
           embed == Call("embed", f.url, NoNamespace, Len(stack) - 1)
           upsert == Call("upsert", f.url, UpsertNamespace(namespace), Len(stack) - 1)
           upsertData == [idx \in 1..Len(batch) |->
                             StoreRecord(UpsertNamespace(namespace), namespace, f.url,
                                         f.i + idx - 1, batch[idx], now)]
           raised(kind) ==
               /\ CanFail(kind)
               /\ apiFaults' = apiFaults - 1
               /\ thrown' = thrown \cup {[url |-> f.url, kind |-> kind, i |-> f.i]}
               /\ IF ChunkErrorCaught("p2")
                  THEN /\ stack' = ReplaceTop([f EXCEPT !.phase = "links"])
                       /\ UNCHANGED <<pc, response>>
                  ELSE Propagate
               /\ UNCHANGED <<store, now, upsertIds>>
       IN \/ /\ calls' = Append(calls, embed)
             /\ raised("embed")
          \/ /\ calls' = Append(calls, embed)
             /\ CanFail("embed")
             /\ apiFaults' = apiFaults - 1
             /\ now' = now + RATE_LIMIT_COOLDOWN
             /\ UNCHANGED <<stack, thrown, store, upsertIds, pc, response>>
          \/ /\ calls' = calls \o <<embed, upsert>>
             /\ raised("upsert")
          \/ /\ calls' = calls \o <<embed, upsert>>
             /\ store' = UpsertAll(store, upsertData)
             /\ upsertIds' = upsertIds \o
                   [idx \in 1..Len(batch) |->
                      RecordId(UpsertNamespace(namespace), now, f.i + idx - 1)]
             /\ stack' = ReplaceTop(next)
             /\ UNCHANGED <<apiFaults, thrown, now, pc, response>>
    /\ UNCHANGED <<envVars, failsLeft, cache, req, url, namespace, reported,
                   visitedUrls, scraped, context, reqCount>>

\* the loop over the links starting while chunks of the page are still to do
LinksReadyEarly(f) == f.phase \in {"chunks", "links"}

\* the loop over linksToScrape follows the chunk loop: it starts once the chunk
\* loop of the activation has ended
LinksReady(f) == f.phase = "links"

\* the loop over linksToScrape: after the sleep, the recursive call for the
\* next link (which may return at once), or the return of the activation
LinkStep ==
    /\ pc = "ingest" /\ stack # <<>> /\ LinksReady(Top)
    /\ LET f == Top
           linksToScrape == Take(InternalLinks(f.url), maxInternalLinks(variant))
           link == linksToScrape[f.li + 1]
           depth == ChildDepth(f.depth)
           advanced == ReplaceTop([f EXCEPT !.li = f.li + 1])
       IN IF f.li < Len(linksToScrape)
          THEN /\ now' = now + LinkSleep(variant)
               /\ IF IngestSkips(depth) \/ ScrapeSkips(link, visitedUrls, depth, 0)
                  THEN stack' = advanced
                  ELSE stack' = Append(advanced, Frame(link, depth))
          ELSE /\ stack' = Pop
               /\ now' = now
    /\ UNCHANGED <<envVars, upsertIds, failsLeft, apiFaults, cache, store, pc, req, url,
                   namespace, reported, visitedUrls, scraped, context, response, calls, thrown,
                   reqCount>>

(* ------------------------------------------------------------------ *)
(* The request handler app.post('/api/ask')                             *)
(* ------------------------------------------------------------------ *)
NoInfoAnswer == [kind |-> "noinfo", question |-> "", context |-> <<>>]
DegradedAnswer == [kind |-> "degraded", question |-> "", context |-> <<>>]

\* result.matches filtered by chat: the contents longer than the floor
FilterContext(matches) ==
    SelectSeq(matches, LAMBDA m : ChunkLength(m.content) > MIN_CONTEXT_LENGTH)

\* ingestion decided without looking at the vector count
UrlNeedsIngestionAlways(vectorCount) == TRUE

\* urlNeedsIngestion: the namespace is absent or reports a zero vector count
UrlNeedsIngestion(vectorCount) == vectorCount = 0

\* the handler without its empty-context branch
ContextIsEmptyNever(ctx) == FALSE

\* !context || context.trim().length === 0
ContextIsEmpty(ctx) == ctx = <<>>

\* a request arrives: parameter check, URL validation, namespace derivation
Receive(r) ==
    /\ pc \in {"idle", "done"}
    /\ reqCount < MaxRequests
    /\ reqCount' = reqCount + 1
    /\ req' = r
    /\ calls' = <<>>
    /\ thrown' = {}
    /\ scraped' = {}
    /\ upsertIds' = <<>>
    /\ visitedUrls' = {}
    /\ stack' = <<>>
    /\ context' = <<>>
    /\ reported' = -1
    /\ LET valid == validateAndFormatUrl(r.url)
       IN IF ~r.url.given \/ r.question = ""
          THEN /\ response' = ErrorResponse(400, "Missing parameters")
               /\ pc' = "done"
               /\ url' = NoUrl
               /\ namespace' = NoNamespace
          ELSE IF valid = Null
          THEN /\ response' = ErrorResponse(400, "Invalid URL")
               /\ pc' = "done"
               /\ url' = NoUrl
               /\ namespace' = NoNamespace
          ELSE /\ response' = NoResponse
               /\ pc' = IF variant = "p1" THEN "cacheGet" ELSE "stats"
               /\ url' = valid
               /\ namespace' = createNamespaceFromUrl(valid)
    /\ UNCHANGED <<envVars, failsLeft, apiFaults, now, cache, store>>

\* an error thrown in the handler body reaches its catch: 500
Fail500(service) ==
    /\ CanFail(service)
    /\ apiFaults' = apiFaults - 1
    /\ pc' = "done"
    /\ response' = ErrorResponse(500, "Failed to process request")

\* part_001: redis.get of the cached answer
CacheGet ==
    /\ pc = "cacheGet"
    /\ calls' = Append(calls, Call("cacheGet", url, namespace, -1))
    /\ \/ /\ Fail500("redis")
       \/ /\ CacheLookup(namespace, req.question) # {}
          /\ response' = (CHOOSE e \in CacheLookup(namespace, req.question) : TRUE).response
          /\ pc' = "done"
          /\ UNCHANGED apiFaults
       \/ /\ CacheLookup(namespace, req.question) = {}
          /\ pc' = "stats"
          /\ UNCHANGED <<apiFaults, response>>
    /\ UNCHANGED <<envVars, upsertIds, failsLeft, now, cache, store, req, url, namespace,
                   reported, visitedUrls, scraped, stack, context, thrown, reqCount>>

\* describeIndexStats and the decision whether the URL needs ingestion
Stats ==
    /\ pc = "stats"
    /\ calls' = Append(calls, Call("stats", url, NoNamespace, -1))
    /\ \/ /\ Fail500("stats")
          /\ UNCHANGED <<reported, stack>>
       \/ /\ reported' = VectorCount(namespace)
          /\ LET urlNeedsIngestion == UrlNeedsIngestion(VectorCount(namespace))
             IN IF urlNeedsIngestion
                THEN /\ pc' = "ingest"
                     /\ stack' = <<Frame(url, 0)>>
                ELSE /\ pc' = "chatEmbed"
                     /\ stack' = stack
          /\ UNCHANGED <<apiFaults, response>>
    /\ UNCHANGED <<envVars, upsertIds, failsLeft, now, cache, store, req, url, namespace,
                   visitedUrls, scraped, context, thrown, reqCount>>

\* ingestRecursive has returned to the handler: the page-count check
AfterIngest ==
    /\ pc = "ingest" /\ stack = <<>>
    /\ IF Cardinality(visitedUrls) = 0
       THEN /\ response' = ErrorResponse(400, "Scraping failed")
            /\ pc' = "done"
       ELSE /\ response' = response
            /\ pc' = "chatEmbed"
    /\ UNCHANGED <<envVars, upsertIds, failsLeft, apiFaults, now, cache, store, req, url,
                   namespace, reported, visitedUrls, scraped, stack, context, calls, thrown,
                   reqCount>>

\* chat: the embedding of the question
ChatEmbed ==
    /\ pc = "chatEmbed"
    /\ calls' = Append(calls, Call("embed", NoUrl, NoNamespace, -1))
    /\ \/ /\ Fail500("embed")
          /\ UNCHANGED now
       \/ /\ variant = "p2"
          /\ CanFail("embed")
          /\ apiFaults' = apiFaults - 1
          /\ now' = now + RATE_LIMIT_COOLDOWN
          /\ UNCHANGED <<pc, response>>
       \/ /\ pc' = "chatQuery"
          /\ UNCHANGED <<apiFaults, response, now>>
    /\ UNCHANGED <<envVars, upsertIds, failsLeft, cache, store, req, url, namespace,
                   reported, visitedUrls, scraped, stack, context, thrown, reqCount>>

\* chat: the vector query, the length filter, and the empty-context answer
ChatQuery ==
    /\ pc = "chatQuery"
    /\ calls' = Append(calls, Call("query", NoUrl, QueryNamespace(namespace), -1))
    /\ \E failed \in BOOLEAN :
          /\ failed => CanFail("query")
          /\ apiFaults' = IF failed THEN apiFaults - 1 ELSE apiFaults
          /\ context' = IF failed THEN <<>>
                        ELSE FilterContext(Take(Partition(QueryNamespace(namespace)), TOP_K))
          /\ IF ContextIsEmpty(context')
             THEN /\ response' = AnswerResponse(NoInfoAnswer, namespace, url, now)
                  /\ pc' = IF variant = "p1" THEN "cacheSet" ELSE "done"
             ELSE /\ response' = response
                  /\ pc' = "generate"
    /\ UNCHANGED <<envVars, upsertIds, failsLeft, now, cache, store, req, url, namespace,
                   reported, visitedUrls, scraped, stack, thrown, reqCount>>

\* generateAnswer and the response envelope
Generate ==
    /\ pc = "generate"
    /\ calls' = Append(calls, Call("generate", NoUrl, NoNamespace, -1))
    /\ LET generated == [kind |-> "generated", question |-> req.question,
                         context |-> context]
       IN \/ /\ variant = "p1"
             /\ Fail500("generate")
             /\ UNCHANGED now
          \/ /\ variant = "p2"
             /\ CanFail("generate")
             /\ apiFaults' = apiFaults - 1
             /\ \/ /\ now' = now + RATE_LIMIT_COOLDOWN
                   /\ UNCHANGED <<pc, response>>
                \/ /\ response' = AnswerResponse(DegradedAnswer, namespace, url, now)
                   /\ pc' = "done"
                   /\ now' = now
          \/ /\ response' = AnswerResponse(generated, namespace, url, now)
             /\ pc' = IF variant = "p1" THEN "cacheSet" ELSE "done"
             /\ UNCHANGED <<apiFaults, now>>
    /\ UNCHANGED <<envVars, upsertIds, failsLeft, cache, store, req, url, namespace,
                   reported, visitedUrls, scraped, stack, context, thrown, reqCount>>

\* part_001: redis.set of the response, then res.json
CacheWrite ==
    /\ pc = "cacheSet"
    /\ calls' = Append(calls, Call("cacheSet", url, namespace, -1))
    /\ \/ /\ Fail500("redis")
          /\ UNCHANGED cache
       \/ /\ cache' = CacheSet(namespace, req.question, response, CACHE_EXPIRY_SECONDS)
          /\ pc' = "done"
          /\ UNCHANGED <<apiFaults, response>>
    /\ UNCHANGED <<envVars, upsertIds, failsLeft, now, store, req, url, namespace,
                   reported, visitedUrls, scraped, stack, context, thrown, reqCount>>

Next ==
    \/ \E r \in Requests : Receive(r)
    \/ CacheGet
    \/ Stats
    \/ ScrapeStep
    \/ ChunkStepP1
    \/ ChunkStepP2
    \/ LinkStep
    \/ AfterIngest
    \/ ChatEmbed
    \/ ChatQuery
    \/ Generate
    \/ CacheWrite

Spec == Init /\ [][Next]_vars

(* ------------------------------------------------------------------ *)
(* part_001: requests spread over time, so that cache entries expire    *)
(* ------------------------------------------------------------------ *)
\* the expiry times of the cache entries that are still alive
LiveExpiries == { e.expiry : e \in { x \in cache : now < x.expiry } }

\* time passes while the server waits for the next request: up to the last
\* millisecond before the next cache entry expires, or up to its expiry
Elapse ==
    /\ pc = "done" /\ reqCount < MaxRequests
    /\ LiveExpiries # {}
    /\ LET next == CHOOSE t \in LiveExpiries : \A o \in LiveExpiries : t <= o
       IN \/ /\ now < next - 1
             /\ now' = next - 1
          \/ now' = next
    /\ UNCHANGED <<envVars, upsertIds, failsLeft, apiFaults, cache, store, pc, req, url,
                   namespace, reported, visitedUrls, scraped, stack, context,
                   response, calls, thrown, reqCount>>

\* which fetches fail: none, or the first MaxFails fetches of the start page
CacheFailPlans ==
    { [n \in PageIds |-> 0], [n \in PageIds |-> IF n = 1 THEN MaxFails ELSE 0] }

InitCache == Init /\ variant = "p1" /\ failsLeft \in CacheFailPlans

NextCache ==
    \/ \E r \in Requests : Receive(r)
    \/ Elapse
    \/ CacheGet
    \/ Stats
    \/ ScrapeStep
    \/ ChunkStepP1
    \/ LinkStep
    \/ AfterIngest
    \/ ChatEmbed
    \/ ChatQuery
    \/ Generate
    \/ CacheWrite

SpecCache == InitCache /\ [][NextCache]_vars

(* ------------------------------------------------------------------ *)
(* Two requests handled at the same time                                *)
(* ------------------------------------------------------------------ *)
\* how often the event loop goes from one handler to the other
MaxSwitches == 2

\* the variables of the activation that is running
Running ==
    [pc |-> pc, req |-> req, url |-> url, namespace |-> namespace, reported |-> reported,
     visitedUrls |-> visitedUrls, stack |-> stack, context |-> context,
     response |-> response, calls |-> calls, thrown |-> thrown, scraped |-> scraped,
     upsertIds |-> upsertIds]

\* the running handler is at an await (every step of the handler ends at one,
\* or has sent the response): the event loop runs the other request's handler,
\* which finds the cache, the index and the clock as they are now
Switch ==
    /\ pc # "idle"
    /\ eventLoop.switches < MaxSwitches
    /\ eventLoop' = [waiting |-> Running, switches |-> eventLoop.switches + 1]
    /\ pc' = eventLoop.waiting.pc
    /\ req' = eventLoop.waiting.req
    /\ url' = eventLoop.waiting.url
    /\ namespace' = eventLoop.waiting.namespace
    /\ reported' = eventLoop.waiting.reported
    /\ visitedUrls' = eventLoop.waiting.visitedUrls
    /\ stack' = eventLoop.waiting.stack
    /\ context' = eventLoop.waiting.context
    /\ response' = eventLoop.waiting.response
    /\ calls' = eventLoop.waiting.calls
    /\ thrown' = eventLoop.waiting.thrown
    /\ scraped' = eventLoop.waiting.scraped
    /\ upsertIds' = eventLoop.waiting.upsertIds
    /\ UNCHANGED <<variant, failsLeft, flaky, apiFaults, now, cache, store, reqCount,
                   applied, apiCallTracker, callers, issued, remote>>

\* a request arrives and gets an activation of its own
ReceiveNew(r) ==
    /\ pc = "idle"
    /\ Receive(r)

InitConcurrent ==
    /\ Init
    /\ flaky = "none"
    /\ failsLeft = [n \in PageIds |-> 0]

NextConcurrent ==
    \/ \E r \in Requests : ReceiveNew(r)
    \/ Switch
    \/ CacheGet
    \/ Stats
    \/ ScrapeStep
    \/ ChunkStepP1
    \/ ChunkStepP2
    \/ LinkStep
    \/ AfterIngest
    \/ ChatEmbed
    \/ ChatQuery
    \/ Generate
    \/ CacheWrite

SpecConcurrent == InitConcurrent /\ [][NextConcurrent]_vars

(* ------------------------------------------------------------------ *)
(* One ingestion run, as running code                                   *)
(* ------------------------------------------------------------------ *)
\* a request for a page further down the site
RawC == MkRaw(TRUE, "https://", FALSE, TRUE, "site.test", 4, "", "")

CrawlRequests == Requests \cup { [url |-> RawC, question |-> "q1"] }

NextCrawl ==
    \/ \E r \in CrawlRequests : ReceiveNew(r)
    \/ CacheGet
    \/ Stats
    \/ ScrapeStep
    \/ ChunkStepP1
    \/ ChunkStepP2
    \/ LinkStep
    \/ AfterIngest

\* an awaited promise settles and a timer fires: the handler takes its next step
SpecCrawl == Init /\ [][NextCrawl]_vars /\ WF_vars(NextCrawl)

(* ------------------------------------------------------------------ *)
(* index.js: app.post('/api/query'), its crawl and its retrieval        *)
(* ------------------------------------------------------------------ *)
MAX_METADATA_SIZE == 40900
QUERY_LINK_SLEEP == 500

Repeat(c, n) == [i \in 1..n |-> c]

\* a sentence of len letters and its full stop
Sentence(len) == Repeat("a", len) \o <<".">>

\* result.mainContent of page n, as its characters
QueryText(n) ==
    IF n = 6 THEN Sentence(50)
    ELSE Sentence(60) \o <<" ">> \o Sentence(60)

\* chunkTextBySize(result.mainContent) for each page
QueryChunks == [n \in PageIds |-> chunkTextBySize(QueryText(n), MAX_METADATA_SIZE)]

QueryRaw == MkRaw(TRUE, "https://", FALSE, TRUE, "site.test", 1, "", "")

\* req.body.url used as it was given
UrlAsGiven(raw) == MkUrl("https:", raw.hostname, "", raw.n, "", raw.query, raw.hash)

QueryRequests ==
    { [url |-> RawMissing, question |-> "q1"],
      [url |-> QueryRaw, question |-> ""],
      [url |-> QueryRaw, question |-> "q1"],
      [url |-> RawB, question |-> "q1"] }

QueryServices == {"none", "embed", "upsert", "query", "generate"}

InitQuery ==
    /\ variant = "p0"
    /\ failsLeft \in CacheFailPlans
    /\ flaky \in QueryServices
    /\ apiFaults = MaxApiFaults
    /\ now = 0 /\ cache = {} /\ store = <<>>
    /\ pc = "idle" /\ req = [url |-> RawMissing, question |-> ""]
    /\ url = NoUrl /\ namespace = NoNamespace /\ reported = -1
    /\ visitedUrls = {} /\ stack = <<>> /\ context = <<>>
    /\ response = NoResponse /\ calls = <<>> /\ thrown = {} /\ scraped = {}
    /\ reqCount = 0 /\ upsertIds = <<>> /\ eventLoop = EventLoopIdle
    /\ applied = NotApplied
    /\ GovernorIdle

\* a request arrives: the parameter check, then ingestRecursive(url, visitedUrls)
QueryReceive(r) ==
    /\ pc \in {"idle", "done"}
    /\ reqCount < MaxRequests
    /\ reqCount' = reqCount + 1
    /\ req' = r
    /\ calls' = <<>>
    /\ thrown' = {}
    /\ scraped' = {}
    /\ upsertIds' = <<>>
    /\ visitedUrls' = {}
    /\ context' = <<>>
    /\ IF ~r.url.given \/ r.question = ""
       THEN /\ response' = ErrorResponse(400, "Missing parameters")
            /\ pc' = "done"
            /\ url' = NoUrl
            /\ stack' = <<>>
       ELSE /\ response' = NoResponse
            /\ pc' = "ingest"
            /\ url' = UrlAsGiven(r.url)
            /\ stack' = <<Frame(UrlAsGiven(r.url), 0)>>
    /\ UNCHANGED <<envVars, failsLeft, apiFaults, now, cache, store, namespace, reported>>

\* one invocation of scrapeWebsite by the activation on top of the stack
QueryScrape ==
    /\ pc = "ingest" /\ stack # <<>> /\ Top.phase = "scrape"
    /\ LET f == Top
           u == f.url
       IN IF ScrapeSkips(u, visitedUrls, f.depth, f.retryCount)
          THEN /\ stack' = Pop
               /\ UNCHANGED <<visitedUrls, calls, failsLeft, thrown, scraped, now>>
          ELSE /\ visitedUrls' = visitedUrls \cup {u}
               /\ calls' = Append(calls, Call("fetch", u, NoNamespace, Len(stack) - 1))
               /\ \/ /\ failsLeft[u.n] > 0
                     /\ failsLeft' = [failsLeft EXCEPT ![u.n] = failsLeft[u.n] - 1]
                     /\ thrown' = thrown \cup {[url |-> u, kind |-> "fetch", i |-> 0]}
                     /\ IF f.retryCount < MAX_RETRIES
                        THEN /\ stack' = ReplaceTop([f EXCEPT !.retryCount = f.retryCount + 1])
                             /\ now' = now + RETRY_DELAY
                        ELSE /\ stack' = Pop
                             /\ now' = now
                     /\ UNCHANGED scraped
                  \/ /\ failsLeft[u.n] = 0
                     /\ scraped' = scraped \cup {u}
                     /\ stack' = ReplaceTop([f EXCEPT !.phase = "chunks"])
                     /\ UNCHANGED <<failsLeft, thrown, now>>
    /\ UNCHANGED <<envVars, upsertIds, apiFaults, cache, store, pc, req, url, namespace,
                   reported, context, response, reqCount>>

\* one iteration of the chunk loop of ingestRecursive, or its end
QueryChunk ==
    /\ pc = "ingest" /\ stack # <<>> /\ Top.phase = "chunks"
    /\ LET f == Top
           contentChunks == QueryChunks[f.url.n]
           chunk == contentChunks[f.i + 1]
           embed == Call("embed", f.url, NoNamespace, Len(stack) - 1)
           upsert == Call("upsert", f.url, NoNamespace, Len(stack) - 1)
           raised(kind) ==
               /\ CanFail(kind)
               /\ apiFaults' = apiFaults - 1
               /\ thrown' = thrown \cup {[url |-> f.url, kind |-> kind, i |-> f.i]}
               /\ Propagate
               /\ UNCHANGED <<store, now, upsertIds>>
       IN IF f.i >= Len(contentChunks)
          THEN /\ stack' = ReplaceTop([f EXCEPT !.phase = "links"])
               /\ UNCHANGED <<calls, apiFaults, thrown, store, now, upsertIds, pc, response>>
          ELSE IF Len(chunk) < MIN_CHUNK_LENGTH
          THEN /\ stack' = ReplaceTop([f EXCEPT !.i = f.i + 1])
               /\ UNCHANGED <<calls, apiFaults, thrown, store, now, upsertIds, pc, response>>
          ELSE \/ /\ calls' = Append(calls, embed)
                  /\ raised("embed")
               \/ /\ calls' = calls \o <<embed, upsert>>
                  /\ raised("upsert")
               \/ /\ calls' = calls \o <<embed, upsert>>
                  /\ store' = Upsert(store, StoreRecord(NoNamespace, NoNamespace,
                                         f.url, f.i, chunk, now))
                  /\ upsertIds' = Append(upsertIds, RecordId(NoNamespace, now, f.i))
                  /\ now' = now + CHUNK_SLEEP
                  /\ stack' = ReplaceTop([f EXCEPT !.i = f.i + 1])
                  /\ UNCHANGED <<apiFaults, thrown, pc, response>>
    /\ UNCHANGED <<envVars, failsLeft, cache, req, url, namespace, reported,
                   visitedUrls, scraped, context, reqCount>>

\* the loop over result.internalLinks: after the sleep, the recursive call for
\* the next link (which may return at once), or the return of the activation
QueryLink ==
    /\ pc = "ingest" /\ stack # <<>> /\ Top.phase = "links"
    /\ LET f == Top
           links == InternalLinks(f.url)
           link == links[f.li + 1]
           depth == ChildDepth(f.depth)
           advanced == ReplaceTop([f EXCEPT !.li = f.li + 1])
       IN IF f.li < Len(links)
          THEN /\ now' = now + QUERY_LINK_SLEEP
               /\ IF IngestSkips(depth) \/ ScrapeSkips(link, visitedUrls, depth, 0)
                  THEN stack' = advanced
                  ELSE stack' = Append(advanced, Frame(link, depth))
          ELSE /\ stack' = Pop
               /\ now' = now
    /\ UNCHANGED <<envVars, upsertIds, failsLeft, apiFaults, cache, store, pc, req, url,
                   namespace, reported, visitedUrls, scraped, context, response, calls,
                   thrown, reqCount>>

\* chat: the embedding of the question, once ingestRecursive has returned
QueryChatEmbed ==
    /\ pc = "ingest" /\ stack = <<>>
    /\ calls' = Append(calls, Call("embed", NoUrl, NoNamespace, -1))
    /\ \/ Fail500("embed")
       \/ /\ pc' = "chatQuery"
          /\ UNCHANGED <<apiFaults, response>>
    /\ UNCHANGED <<envVars, upsertIds, failsLeft, now, cache, store, req, url, namespace,
                   reported, visitedUrls, scraped, stack, context, thrown, reqCount>>

\* the contents longer than the floor, of the matches of index.query
QueryFilterContext(matches) ==
    SelectSeq(matches, LAMBDA m : Len(m.content) > MIN_CONTEXT_LENGTH)

\* chat: the vector query and the length filter; the empty-context answer
QueryChatQuery ==
    /\ pc = "chatQuery"
    /\ calls' = Append(calls, Call("query", NoUrl, NoNamespace, -1))
    /\ \/ /\ Fail500("query")
          /\ UNCHANGED context
       \/ /\ context' = QueryFilterContext(Take(Partition(NoNamespace), TOP_K))
          /\ IF context' = <<>>
             THEN /\ response' = AnswerResponse(NoInfoAnswer, NoNamespace, url, now)
                  /\ pc' = "done"
             ELSE /\ response' = response
                  /\ pc' = "generate"
          /\ UNCHANGED apiFaults
    /\ UNCHANGED <<envVars, upsertIds, failsLeft, now, cache, store, req, url, namespace,
                   reported, visitedUrls, scraped, stack, thrown, reqCount>>

\* generateAnswer and the response
QueryGenerate ==
    /\ pc = "generate"
    /\ calls' = Append(calls, Call("generate", NoUrl, NoNamespace, -1))
    /\ \/ Fail500("generate")
       \/ /\ response' = AnswerResponse([kind |-> "generated", question |-> req.question,
                                         context |-> context], NoNamespace, url, now)
          /\ pc' = "done"
          /\ UNCHANGED apiFaults
    /\ UNCHANGED <<envVars, upsertIds, failsLeft, now, cache, store, req, url, namespace,
                   reported, visitedUrls, scraped, stack, context, thrown, reqCount>>

NextQuery ==
    \/ \E r \in QueryRequests : QueryReceive(r)
    \/ QueryScrape
    \/ QueryChunk
    \/ QueryLink
    \/ QueryChatEmbed
    \/ QueryChatQuery
    \/ QueryGenerate

SpecQuery == InitQuery /\ [][NextQuery]_vars

(* ------------------------------------------------------------------ *)
(* part_002, the standalone script: main() and its crawl                *)
(* ------------------------------------------------------------------ *)
\* a JavaScript value used as depth: a number n, or the text of the start URL
\* followed by n characters "1"
JsNumber(n) == [isNumber |-> TRUE, n |-> n]
JsUrlText(n) == [isNumber |-> FALSE, n |-> n]

\* value > k: a text that is not a numeral converts to NaN, and NaN > k is false
JsGreaterThan(value, k) == value.isNumber /\ value.n > k

\* value + 1: the sum for a number, the text with "1" appended for a text
JsPlusOne(value) == [value EXCEPT !.n = value.n + 1]

\* the site the script crawls: page n links to the next page, to the page
\* before it and to its own top
ScriptHrefs(n) ==
    (IF n < NumPages THEN <<Rel(n + 1)>> ELSE <<>>)
    \o (IF n > 1 THEN <<Rel(n - 1)>> ELSE <<>>)
    \o <<MkHref("", "", "", 0, "", "", "#top")>>

ScriptLinks(u) == Dedup(NormalizeAll(u, ScriptHrefs(u.n)))

\* const startUrl
ScriptStartUrl == MkUrl("https:", "site.test", "", 1, "", "", "")

\* which fetches fail: none, or the first MaxFails fetches of one page
ScriptFailPlans ==
    { f \in [PageIds -> {0, MaxFails}] : Cardinality({n \in PageIds : f[n] > 0}) <= 1 }

InitScript ==
    /\ variant = "script"
    /\ failsLeft \in ScriptFailPlans
    /\ flaky = "none" /\ apiFaults = 0
    /\ now = 0 /\ cache = {} /\ store = <<>>
    /\ pc = "idle" /\ req = [url |-> RawMissing, question |-> ""]
    /\ url = NoUrl /\ namespace = NoNamespace /\ reported = -1
    /\ visitedUrls = {} /\ stack = <<>> /\ context = <<>>
    /\ response = NoResponse /\ calls = <<>> /\ thrown = {} /\ scraped = {}
    /\ reqCount = 0 /\ upsertIds = <<>> /\ eventLoop = EventLoopIdle
    /\ applied = NotApplied
    /\ GovernorIdle

\* main(): ingestRecursive(startUrl, startUrl), the second argument being depth
ScriptMain ==
    /\ pc = "idle"
    /\ pc' = "ingest"
    /\ url' = ScriptStartUrl
    /\ req' = [url |-> RawA, question |-> "q1"]
    /\ stack' = <<Frame(ScriptStartUrl, JsUrlText(0))>>
    /\ reqCount' = reqCount + 1
    /\ UNCHANGED <<envVars, upsertIds, failsLeft, apiFaults, now, cache, store, namespace,
                   reported, visitedUrls, scraped, context, response, calls, thrown>>

\* one invocation of scrapeWebsite(url, depth) by the activation on top of the
\* stack; VISITED_URLS is the set of the whole process
ScriptScrape ==
    /\ pc = "ingest" /\ stack # <<>> /\ Top.phase = "scrape"
    /\ LET f == Top
           u == f.url
       IN IF u \in visitedUrls \/ JsGreaterThan(f.depth, MAX_DEPTH)
          THEN /\ stack' = Pop
               /\ UNCHANGED <<visitedUrls, calls, failsLeft, thrown, scraped, now>>
          ELSE /\ visitedUrls' = visitedUrls \cup {u}
               /\ calls' = Append(calls, Call("fetch", u, NoNamespace, Len(stack) - 1))
               /\ \/ /\ failsLeft[u.n] > 0
                     /\ failsLeft' = [failsLeft EXCEPT ![u.n] = failsLeft[u.n] - 1]
                     /\ thrown' = thrown \cup {[url |-> u, kind |-> "fetch", i |-> 0]}
                     /\ IF f.retryCount < MAX_RETRIES
                        THEN /\ stack' = ReplaceTop([f EXCEPT !.retryCount = f.retryCount + 1])
                             /\ now' = now + RETRY_DELAY
                        ELSE /\ stack' = Pop
                             /\ now' = now
                     /\ UNCHANGED scraped
                  \/ /\ failsLeft[u.n] = 0
                     /\ scraped' = scraped \cup {u}
                     /\ stack' = ReplaceTop([f EXCEPT !.phase = "chunks"])
                     /\ UNCHANGED <<failsLeft, thrown, now>>
    /\ UNCHANGED <<envVars, upsertIds, apiFaults, cache, store, pc, req, url, namespace,
                   reported, context, response, reqCount>>

\* the loop over result.internalLinks: after the sleep, ingestRecursive(link,
\* depth + 1), which may return at once; or the return of the activation
ScriptLink ==
    /\ pc = "ingest" /\ stack # <<>> /\ Top.phase = "links"
    /\ LET f == Top
           links == ScriptLinks(f.url)
           link == links[f.li + 1]
           depth == JsPlusOne(f.depth)
           advanced == ReplaceTop([f EXCEPT !.li = f.li + 1])
       IN IF f.li < Len(links)
          THEN /\ now' = now + QUERY_LINK_SLEEP
               /\ IF JsGreaterThan(depth, MAX_DEPTH) \/ link \in visitedUrls
                  THEN stack' = advanced
                  ELSE stack' = Append(advanced, Frame(link, depth))
          ELSE /\ stack' = Pop
               /\ now' = now
    /\ UNCHANGED <<envVars, upsertIds, failsLeft, apiFaults, cache, store, pc, req, url,
                   namespace, reported, visitedUrls, scraped, context, response, calls,
                   thrown, reqCount>>

\* the chunk loop, chat and generateAnswer of the script are those of index.js
NextScript ==
    \/ ScriptMain
    \/ ScriptScrape
    \/ QueryChunk
    \/ ScriptLink
    \/ QueryChatEmbed
    \/ QueryChatQuery
    \/ QueryGenerate

SpecScript == InitScript /\ [][NextScript]_vars

(* ------------------------------------------------------------------ *)
(* The library functions on their own                                   *)
(* ------------------------------------------------------------------ *)
\* the request handler at rest
HandlerIdle ==
    /\ variant = "p1" /\ flaky = "none"
    /\ failsLeft = [n \in PageIds |-> 0]
    /\ apiFaults = 0 /\ now = 0 /\ cache = {} /\ store = <<>>
    /\ pc = "idle" /\ req = [url |-> RawMissing, question |-> ""]
    /\ url = NoUrl /\ namespace = NoNamespace /\ reported = -1
    /\ visitedUrls = {} /\ stack = <<>> /\ context = <<>>
    /\ response = NoResponse /\ calls = <<>> /\ thrown = {} /\ scraped = {}
    /\ reqCount = 0 /\ upsertIds = <<>> /\ eventLoop = EventLoopIdle

handlerVars ==
    <<variant, failsLeft, flaky, apiFaults, now, cache, store, pc, req, url,
      namespace, reported, visitedUrls, stack, context, response, calls, thrown,
      scraped, reqCount, upsertIds, eventLoop>>

governorVars == <<apiCallTracker, callers, issued, remote>>

\* the result slot of a function that has not run yet
Pending == <<[pending |-> TRUE]>>

\* URL strings given to createNamespaceFromUrl
NamespaceUrls ==
    { MkUrl(s, h, "", n, "", q, "") :
        s \in {"https:", "http:"}, h \in {"site.test", "other.test"},
        n \in 1..2, q \in {"", "?v"} }

\* createNamespaceFromUrl called on two URLs
ApplyCreateNamespace ==
    /\ applied.fn = "createNamespaceFromUrl" /\ applied.out = Pending
    /\ applied' = [applied EXCEPT !.out = <<createNamespaceFromUrl(applied.args[1]),
                                            createNamespaceFromUrl(applied.args[2])>>]
    /\ UNCHANGED <<handlerVars, governorVars>>

\* base URLs given to normalizeUrl: the URL of a scraped page
NormalizeBases ==
    { MkUrl("https:", h, p, n, "", q, "") :
        h \in {"site.test", "other.test"}, p \in {"", "8443"},
        n \in 1..2, q \in {"", "?v"} }

\* href attribute values given to normalizeUrl
NormalizeLinks ==
    { Null, EmptyHref, Rel(1),
      MkHref("", "", "", 0, "", "", "#top"),
      MkHref("", "", "", 0, "", "?v", ""),
      MkHref("", "", "", 2, "", "?v", "#top"),
      MkHref("", "", "", 2, ".pdf", "", ""),
      MkHref("mailto:", "", "", 0, "", "", ""),
      MkHref("bad:", "", "", 0, "", "", ""),
      MkHref("https:", "site.test", "", 2, "", "?v", ""),
      MkHref("https:", "site.test", "8443", 1, "", "", ""),
      MkHref("https:", "other.test", "", 1, "", "", "") }

\* parsed.toString() used as a link: an absolute reference with the same parts
HrefOf(u) == MkHref(u.scheme, u.hostname, u.port, u.n, u.ext, u.query, u.hash)

\* the host of a URL: host name plus port
HostOf(u) == <<u.hostname, u.port>>

\* normalizeUrl(baseUrl, link)
ApplyNormalizeUrl ==
    /\ applied.fn = "normalizeUrl" /\ applied.out = Pending
    /\ applied' = [applied EXCEPT
                      !.out = <<normalizeUrl(applied.args[1], applied.args[2])>>]
    /\ UNCHANGED <<handlerVars, governorVars>>

\* a non-null result of normalizeUrl normalized again against a base on its host
ApplyNormalizeUrlAgain ==
    /\ applied.fn = "normalizeUrl" /\ applied.out # Pending
    /\ applied.out[1] # Null
    /\ \E b \in NormalizeBases :
          /\ HostOf(b) = HostOf(applied.out[1])
          /\ applied' = [fn |-> "normalizeUrlAgain",
                         args |-> <<b, applied.out[1]>>,
                         out |-> <<normalizeUrl(b, HrefOf(applied.out[1]))>>]
    /\ UNCHANGED <<handlerVars, governorVars>>

MaxTextLen == 4

\* the characters of a text: a letter, a blank and the sentence terminators
TextChars == {"a", " ", ".", "!", "?"}

RECURSIVE TextsOfLen(_)
TextsOfLen(n) ==
    IF n = 0 THEN {<<>>}
    ELSE { Append(t, c) : t \in TextsOfLen(n - 1), c \in TextChars }

Texts == UNION { TextsOfLen(n) : n \in 0..MaxTextLen }

\* values of the maxSize argument
ChunkSizes == {1, 4}

\* chunkTextBySize(text, maxSize)
ApplyChunkTextBySize ==
    /\ applied.fn = "chunkTextBySize" /\ applied.out = Pending
    /\ applied' = [applied EXCEPT
          !.out = <<[chunks |-> chunkTextBySize(applied.args[1].text,
                                                applied.args[2].maxSize)]>>]
    /\ UNCHANGED <<handlerVars, governorVars>>

MaxWords == 4

\* the lengths a word of a text can have ("" between two blanks has length 0)
WordLengths == {0, 1, 4, 8}

\* texts given to chunkText, as the lengths of the pieces of text.split(" ")
WordTexts == UNION { [1..n -> WordLengths] : n \in 1..MaxWords }

\* values of the maxTokens argument
TokenBudgets == {2, 3}

\* part_002: chunkText(text, maxTokens)
ApplyChunkText ==
    /\ applied.fn = "chunkText" /\ applied.out = Pending
    /\ applied' = [applied EXCEPT
          !.out = <<[chunks |-> chunkTextTokens(applied.args[1].words,
                                                applied.args[2].maxTokens)]>>]
    /\ UNCHANGED <<handlerVars, governorVars>>

\* estimateTokens(text), on the length of the text
estimateTokens(length) == CeilDiv4(length)

\* MAX_TOKENS of part_001 and of part_002
MAX_TOKENS(v) == IF v = "p1" THEN 3000 ELSE 8000

\* a budget that lets twice as much through
ContextBudgetDoubled(v) == 2 * MAX_TOKENS(v)

\* the bound of the while loop of generateAnswer
ContextBudget(v) == IF v = "p1" THEN MAX_TOKENS(v) ELSE MAX_TOKENS(v) - 1000

\* a substring of the assembled context: the characters from (included) to
\* to (excluded); every empty substring is the same string
Substring(from, to) == IF to <= from THEN [from |-> 0, to |-> 0] ELSE [from |-> from, to |-> to]

\* String.prototype.slice(begin, end) with a non-negative begin and a negative end
Slice(s, begin, end) ==
    LET length == s.to - s.from
        first == Min(begin, length)
        last == IF length + end < 0 THEN 0 ELSE length + end
    IN Substring(s.from + first, s.from + last)

\* lengths of the question and of the context given to generateAnswer
QuestionLengths == {20, 30000}
ContextLengths == {0, 600, 11980, 11981, 13000, 28500, 40000}

\* let finalContext = context
StartGenerateAnswer ==
    /\ applied.fn = "generateAnswer" /\ applied.out = Pending
    /\ applied' = [applied EXCEPT
          !.out = <<[finalContext |-> Substring(0, applied.args[1].context),
                     sent |-> FALSE]>>]
    /\ UNCHANGED <<handlerVars, governorVars>>

\* one test of the while loop: an iteration, or the request to the answer service
TrimContext ==
    /\ applied.fn = "generateAnswer" /\ applied.out # Pending
    /\ ~applied.out[1].sent
    /\ LET finalContext == applied.out[1].finalContext
           length == applied.args[1].question + (finalContext.to - finalContext.from)
       IN IF estimateTokens(length) > ContextBudget(applied.args[1].variant)
          THEN applied' = [applied EXCEPT
                  !.out = <<[finalContext |-> Slice(finalContext, 0, -1000),
                             sent |-> FALSE]>>]
          ELSE applied' = [applied EXCEPT
                  !.out = <<[finalContext |-> finalContext, sent |-> TRUE]>>]
    /\ UNCHANGED <<handlerVars, governorVars>>

(* ------------------------------------------------------------------ *)
(* extractContent: the JSON-LD blocks of a page                         *)
(* ------------------------------------------------------------------ *)
MaxBlocks == 3

\* the keys and the values of the parsed blocks; the key "0" is the index of
\* the only item of a one-item array
JsonKeys == {"@type", "name", "0"}
JsonValues == {"a", "b"}

\* what reading a key an object does not have gives
Undefined == "undefined"

\* an object as its value under every key
JsonObjects == [JsonKeys -> JsonValues \cup {Undefined}]

\* contentObj.structuredData = {}
EmptyObject == [k \in JsonKeys |-> Undefined]

\* the text of a script[type="application/ld+json"] element: a JSON object, a
\* JSON array of one item, or a text JSON.parse rejects
JsonLdBlocks ==
    { [kind |-> "object", props |-> o] : o \in { x \in JsonObjects : x["0"] = Undefined } }
    \cup
    { [kind |-> "array", props |-> o] :
         o \in { x \in JsonObjects : x["0"] # Undefined /\ x["@type"] = Undefined
                                                        /\ x["name"] = Undefined } }
    \cup { [kind |-> "malformed", props |-> EmptyObject] }

\* the script elements of a page, in document order
JsonLdPages == UNION { [1..n -> JsonLdBlocks] : n \in 0..MaxBlocks }

\* JSON.parse(text): Null stands for the SyntaxError
JsonParse(block) == IF block.kind = "malformed" THEN Null ELSE block.props

\* { ...source, ...target }: the keys of the earlier object win
SpreadEarlierWins(target, source) ==
    [k \in JsonKeys |-> IF target[k] # Undefined THEN target[k] ELSE source[k]]

\* { ...target, ...source }
Spread(target, source) ==
    [k \in JsonKeys |-> IF source[k] # Undefined THEN source[k] ELSE target[k]]

\* let contentObj = {..., structuredData: {}}
StartExtractContent ==
    /\ applied.fn = "extractContent" /\ applied.out = Pending
    /\ applied' = [applied EXCEPT
          !.out = <<[structuredData |-> EmptyObject, element |-> 1, returned |-> FALSE]>>]
    /\ UNCHANGED <<handlerVars, governorVars>>

\* one callback of $('script[type="application/ld+json"]').each
EachJsonLd ==
    /\ applied.fn = "extractContent" /\ applied.out # Pending
    /\ applied.out[1].element <= Len(applied.args[1].scripts)
    /\ LET contentObj == applied.out[1]
           jsonData == JsonParse(applied.args[1].scripts[contentObj.element])
       IN applied' = [applied EXCEPT
             !.out = <<[structuredData |-> IF jsonData = Null
                                           THEN contentObj.structuredData
                                           ELSE Spread(contentObj.structuredData, jsonData),
                        element |-> contentObj.element + 1,
                        returned |-> FALSE]>>]
    /\ UNCHANGED <<handlerVars, governorVars>>

\* the rest of extractContent: the text of the page, and return contentObj
ReturnContent ==
    /\ applied.fn = "extractContent" /\ applied.out # Pending
    /\ applied.out[1].element > Len(applied.args[1].scripts)
    /\ ~applied.out[1].returned
    /\ applied' = [applied EXCEPT !.out = <<[applied.out[1] EXCEPT !.returned = TRUE]>>]
    /\ UNCHANGED <<handlerVars, governorVars>>

PureInputs ==
    { [fn |-> "extractContent", args |-> <<[scripts |-> p]>>, out |-> Pending] :
        p \in JsonLdPages }
    \cup
    { [fn |-> "generateAnswer",
       args |-> <<[variant |-> v, question |-> q, context |-> c]>>,
       out |-> Pending] : v \in Variants, q \in QuestionLengths, c \in ContextLengths }
    \cup
    { [fn |-> "chunkText", args |-> <<[words |-> w], [maxTokens |-> m]>>,
       out |-> Pending] : w \in WordTexts, m \in TokenBudgets }
    \cup
    { [fn |-> "chunkTextBySize", args |-> <<[text |-> t], [maxSize |-> m]>>,
       out |-> Pending] : t \in Texts, m \in ChunkSizes }
    \cup
    { [fn |-> "createNamespaceFromUrl", args |-> <<u1, u2>>, out |-> Pending] :
        u1 \in NamespaceUrls, u2 \in NamespaceUrls }
    \cup { [fn |-> "normalizeUrl", args |-> <<b, l>>, out |-> Pending] :
              b \in NormalizeBases, l \in NormalizeLinks }

InitPure == HandlerIdle /\ GovernorIdle /\ applied \in PureInputs

NextPure ==
    \/ ApplyCreateNamespace
    \/ ApplyNormalizeUrl
    \/ ApplyNormalizeUrlAgain
    \/ ApplyChunkTextBySize
    \/ ApplyChunkText
    \/ StartGenerateAnswer
    \/ TrimContext
    \/ StartExtractContent
    \/ EachJsonLd
    \/ ReturnContent

SpecPure == InitPure /\ [][NextPure]_vars

\* the library functions as running code: a call that has a next step takes it
SpecPureLive == InitPure /\ [][NextPure]_vars /\ WF_vars(NextPure)

(* ------------------------------------------------------------------ *)
(* part_002: rateLimitedApiCall under concurrent callers                *)
(* ------------------------------------------------------------------ *)
MaxCallsPerCaller == 2

\* two requests handled at the same time, each an await chain of its own
CallerIds == {"r1", "r2"}

\* the step of the clock while no timer is running
TickMs == minDelayBetweenCalls \div 2

\* how long axios.post takes
CallDurations == {TickMs}

\* an await chain of a request that is outside rateLimitedApiCall
IdleCaller(todo) ==
    [pc |-> "idle", timer |-> 0, todo |-> todo, fn |-> "none", sent |-> "none",
     result |-> "none", sinceLimit |-> -1, retryGap |-> -1,
     caught |-> "none", thrown |-> "none"]

\* a tracker left by earlier requests: one successful call every
\* minDelayBetweenCalls, one short of requestsPerMinute calls in the window
BusyAges == [k \in 1..(requestsPerMinute - 1) |->
                (requestsPerMinute - k) * minDelayBetweenCalls]
BusyTracker == [calls |-> BusyAges, lastCall |-> minDelayBetweenCalls]

InitRate ==
    /\ HandlerIdle /\ applied = NotApplied
    /\ \/ apiCallTracker = FreshTracker /\ issued = <<>>
       \/ apiCallTracker = BusyTracker /\ issued = BusyAges
    /\ callers = [c \in CallerIds |-> IdleCaller(MaxCallsPerCaller)]
    /\ remote = [mode |-> "up", faultsLeft |-> MaxApiFaults]

\* apiCallTracker.calls.filter(time => now - time < 60000)
FilterWindow(ages) == SelectSeq(ages, LAMBDA a : a < RATE_WINDOW)

\* a catch that takes no error for a rate-limit signal
IsRateLimitSignalNever(err) == FALSE

\* a catch that takes every error for a rate-limit signal
IsRateLimitSignalAlways(err) == TRUE

\* error.response?.status === 429 || error.message.includes('429')
IsRateLimitSignal(err) == err = "429"

\* the catch of generateAnswer: the answer returned for an error
DegradedFor(err) == IF IsRateLimitSignal(err) THEN "highLoad" ELSE "unexpected"

\* apiFunction(...args): the request leaves for the remote API
Send(c, fn) ==
    /\ issued' = Append(issued, 0)
    /\ \E d \in CallDurations :
          callers' = [callers EXCEPT ![c].pc = "inflight", ![c].timer = d,
                                     ![c].fn = fn, ![c].sent = fn,
                                     ![c].retryGap = callers[c].sinceLimit,
                                     ![c].todo = IF callers[c].pc = "idle"
                                                 THEN callers[c].todo - 1
                                                 ELSE callers[c].todo,
                                     ![c].result = "none",
                                     ![c].caught = "none", ![c].thrown = "none"]

\* rateLimitedApiCall from its first line to its first await: a fresh call, or
\* the recursive call after the window wait or the 429 cool-down
Enter(c, fn) ==
    /\ \/ callers[c].pc = "idle" /\ callers[c].todo > 0
       \/ callers[c].pc \in {"capWait", "coolWait"} /\ callers[c].timer = 0
                                                    /\ fn = callers[c].fn
    /\ LET filtered == FilterWindow(apiCallTracker.calls)
           timeSinceLastCall == apiCallTracker.lastCall
       IN /\ apiCallTracker' = [apiCallTracker EXCEPT !.calls = filtered]
          /\ IF Len(filtered) >= requestsPerMinute
             THEN /\ callers' = [callers EXCEPT
                        ![c].pc = "capWait", ![c].timer = RATE_WINDOW - filtered[1],
                        ![c].fn = fn, ![c].result = "none",
                        ![c].caught = "none", ![c].thrown = "none",
                        ![c].todo = IF callers[c].pc = "idle" THEN callers[c].todo - 1
                                    ELSE callers[c].todo]
                  /\ UNCHANGED issued
             ELSE IF timeSinceLastCall < minDelayBetweenCalls
             THEN /\ callers' = [callers EXCEPT
                        ![c].pc = "delayWait",
                        ![c].timer = minDelayBetweenCalls - timeSinceLastCall,
                        ![c].fn = fn, ![c].result = "none",
                        ![c].caught = "none", ![c].thrown = "none",
                        ![c].todo = IF callers[c].pc = "idle" THEN callers[c].todo - 1
                                    ELSE callers[c].todo]
                  /\ UNCHANGED issued
             ELSE Send(c, fn)
    /\ UNCHANGED <<handlerVars, applied, remote>>

\* the minimum-delay sleep is over: the call is made
Wake(c) ==
    /\ callers[c].pc = "delayWait" /\ callers[c].timer = 0
    /\ Send(c, callers[c].fn)
    /\ UNCHANGED <<handlerVars, applied, remote, apiCallTracker>>

\* return result: the caller gets its value
Return(c, result) ==
    callers' = [callers EXCEPT ![c].pc = "idle", ![c].timer = 0, ![c].result = result,
                               ![c].sinceLimit = -1]

\* throw error: the caller of rateLimitedApiCall gets the exception; generateAnswer
\* catches it and returns an answer, the other callers let it pass
Throw(c, error) ==
    callers' = [callers EXCEPT ![c].pc = "idle", ![c].timer = 0,
                               ![c].result = IF callers[c].fn = "generate"
                                             THEN DegradedFor(error) ELSE error,
                               ![c].caught = error, ![c].thrown = error,
                               ![c].sinceLimit = -1]

\* the remote API has answered: try / catch of rateLimitedApiCall, and for a
\* call made by generateAnswer the catch around it
Complete(c) ==
    /\ callers[c].pc = "inflight" /\ callers[c].timer = 0
    /\ \/ /\ remote.mode = "up"
          /\ apiCallTracker' = [calls |-> Append(apiCallTracker.calls, 0), lastCall |-> 0]
          /\ Return(c, "ok")
          /\ UNCHANGED remote
       \/ /\ \E err \in {"429", "500"} :
                /\ \/ err = "429" /\ remote.mode = "throttled" /\ UNCHANGED remote
                   \/ /\ remote.mode = "up" /\ remote.faultsLeft > 0
                      /\ remote' = [remote EXCEPT !.faultsLeft = remote.faultsLeft - 1]
                /\ IF IsRateLimitSignal(err)
                   THEN callers' = [callers EXCEPT ![c].pc = "coolWait",
                                                   ![c].timer = RATE_LIMIT_COOLDOWN,
                                                   ![c].sinceLimit = 0,
                                                   ![c].caught = err]
                   ELSE Throw(c, err)
          /\ UNCHANGED apiCallTracker
    /\ UNCHANGED <<handlerVars, applied, issued>>

\* a difference to Date.now() after d more milliseconds
Older(a, d) == Min(a + d, RATE_WINDOW)

\* the timers that are running
Timers == { callers[c].timer : c \in { x \in CallerIds : callers[x].pc # "idle" } }

\* time passes until the next timer fires; with no timer running, the next
\* caller arrives TickMs later, as long as that changes what it will see
Tick ==
    LET d == IF Timers = {} THEN TickMs
             ELSE CHOOSE t \in Timers : \A x \in Timers : t <= x
    IN /\ d > 0
       /\ Timers = {} => apiCallTracker.lastCall < minDelayBetweenCalls
       /\ apiCallTracker' =
             [calls |-> [k \in 1..Len(apiCallTracker.calls) |->
                            Older(apiCallTracker.calls[k], d)],
              lastCall |-> Older(apiCallTracker.lastCall, d)]
       /\ issued' = FilterWindow([k \in 1..Len(issued) |-> Older(issued[k], d)])
       /\ callers' = [c \in CallerIds |->
             IF callers[c].pc = "idle" THEN callers[c]
             ELSE [callers[c] EXCEPT !.timer = callers[c].timer - d,
                                     !.sinceLimit = IF callers[c].sinceLimit = -1 THEN -1
                                                    ELSE Older(callers[c].sinceLimit, d)]]
       /\ UNCHANGED <<handlerVars, applied, remote>>

\* from now on the remote API answers every call with 429
Overload ==
    /\ remote.mode = "up"
    /\ remote' = [remote EXCEPT !.mode = "throttled"]
    /\ UNCHANGED <<handlerVars, applied, apiCallTracker, callers, issued>>

\* what a caller asks for: embeddings first, the answer last
NextCall(c) == IF callers[c].todo = 1 THEN "generate" ELSE "embed"

NextRate ==
    \/ \E c \in CallerIds : Enter(c, IF callers[c].pc = "idle" THEN NextCall(c)
                                     ELSE callers[c].fn)
    \/ \E c \in CallerIds : Wake(c)
    \/ \E c \in CallerIds : Complete(c)
    \/ Tick
    \/ Overload

\* timers fire and awaited promises settle: the event loop does not stop
SpecRate == InitRate /\ [][NextRate]_vars /\ WF_vars(NextRate)

(* ------------------------------------------------------------------ *)
(* Properties                                                           *)
(* ------------------------------------------------------------------ *)
CallsOfKind(kind) == SelectSeq(calls, LAMBDA c : c.kind = kind)
FetchCount(u) == Len(SelectSeq(calls, LAMBDA c : c.kind = "fetch" /\ c.url = u))

\* the ingestion run of the current request has returned to the handler
RunOver == reported = 0 /\ pc \in {"chatEmbed", "chatQuery", "generate", "cacheSet", "done"}

\* C1: within one ingestion run no URL is fetched more than once, and every
\* fetch is of a URL that entered the visited set with that fetch
C1_NoSecondFetch ==
    /\ \A i, j \in 1..Len(calls) :
          (i < j /\ calls[i].kind = "fetch" /\ calls[j].kind = "fetch")
             => calls[i].url # calls[j].url
    /\ \A i \in 1..Len(calls) : calls[i].kind = "fetch" => calls[i].url \in visitedUrls

\* C1 witness: a finished run over the cyclic graph that fetched several pages,
\* each of which links back to an already visited page
C1_Witness ==
    /\ RunOver
    /\ Len(CallsOfKind("fetch")) >= 4
    /\ \E u \in scraped : \E l \in 1..Len(InternalLinks(u)) :
          InternalLinks(u)[l] = url

\* C2 (as claimed): a failed fetch of the start URL is followed by another
\* fetch of the same URL
C2_RetryFetchesAgain ==
    (RunOver /\ [url |-> url, kind |-> "fetch", i |-> 0] \in thrown)
       => FetchCount(url) >= 2

\* C3 (as claimed): when no fetch attempt of the start URL succeeds, the
\* handler sees zero pages and answers 'Scraping failed'
C3_ScrapingFailed ==
    (pc = "done" /\ reported = 0 /\ FetchCount(url) >= 1 /\ url \notin scraped)
       => (Cardinality(visitedUrls) = 0
           /\ response = ErrorResponse(400, "Scraping failed"))

\* C4: when describeIndexStats reported a non-zero vector count for the
\* namespace, the request fetches no page, embeds and upserts nothing for
\* ingestion, starts no crawl, and its next call after the stats call is the
\* embedding of the question (retrieval)
C4_NoCrawlWhenStored ==
    reported > 0 =>
       /\ stack = <<>> /\ visitedUrls = {} /\ scraped = {}
       /\ pc \in {"chatEmbed", "chatQuery", "generate", "cacheSet", "done"}
       /\ \A k \in 1..Len(calls) :
             /\ calls[k].kind \notin {"fetch", "upsert"}
             /\ calls[k].kind = "embed" => calls[k].level = -1
             /\ (calls[k].kind = "stats" /\ k < Len(calls))
                   => (calls[k + 1].kind = "embed" /\ calls[k + 1].level = -1)

\* C4 witness: a second request for an already ingested URL has been answered
\* after a vector query
C4_Witness ==
    /\ reported > 0 /\ reqCount = 2 /\ pc = "done" /\ response.success
    /\ CallsOfKind("query") # <<>>

\* the cache read of the current request raised
CacheReadFailed ==
    calls = <<Call("cacheGet", url, namespace, -1)>> /\ response.status = 500

\* C5: part_001, cache hit: when the cache read has been done and an unexpired
\* entry written by an earlier request exists for (namespace, question), the
\* request is over, its response is the cached one, and the cache read is
\* the only call it issued
C5_CacheHit ==
    \A e \in cache :
       (/\ variant = "p1" /\ url # NoUrl /\ pc # "cacheGet"
        /\ e.ns = namespace /\ e.question = req.question /\ now < e.expiry
        /\ CallsOfKind("cacheSet") = <<>> /\ ~CacheReadFailed)
          => /\ pc = "done"
             /\ response = e.response
             /\ calls = <<Call("cacheGet", url, namespace, -1)>>

\* C5 witness: a second request served from the cache
C5_Witness ==
    /\ variant = "p1" /\ reqCount = 2 /\ pc = "done" /\ response.success
    /\ calls = <<Call("cacheGet", url, namespace, -1)>>
    /\ \E e \in cache : e.ns = namespace /\ e.question = req.question
                        /\ e.response = response

\* C6: no page more than MAX_DEPTH activations below the start page is
\* fetched, and the visited set (whose size is the page count) holds exactly
\* the pages fetched
C6_DepthBound ==
    /\ \A k \in 1..Len(calls) : calls[k].kind = "fetch" => calls[k].level <= MAX_DEPTH
    /\ visitedUrls = { calls[k].url : k \in { j \in 1..Len(calls) : calls[j].kind = "fetch" } }
    /\ Len(stack) <= MAX_DEPTH + 1

\* C6 witness: the activation at depth MAX_DEPTH has passed a link that was
\* neither fetched nor added to the visited set
C6_Witness ==
    /\ stack # <<>> /\ Top.depth = MAX_DEPTH /\ Len(stack) = MAX_DEPTH + 1
    /\ Top.phase = "links" /\ Top.li >= 1
    /\ InternalLinks(Top.url)[Top.li] \notin visitedUrls

\* the records the current ingestion run stored for page u
StoredOf(u) == SelectSeq(store, LAMBDA r : r.by = namespace /\ r.url = u)

\* errors of ingestRecursive's own work on a page
ChunkErrors == { t \in thrown : t.kind \in {"embed", "upsert"} }

\* an ingestion error never reaches the handler: a 500 is only ever the
\* outcome of a call made by the handler, chat or generateAnswer
NotPropagated ==
    (pc = "done" /\ response.status = 500)
       => (calls # <<>> /\ calls[Len(calls)].level = -1)

\* the crawl went on: after the run, the links (up to the cap) of every page
\* scraped above the depth limit have been visited; part_002 follows the
\* links only of pages that had chunks to store
CrawlContinued ==
    RunOver =>
       \A k \in 1..Len(calls) :
          (/\ calls[k].kind = "fetch" /\ calls[k].url \in scraped
           /\ calls[k].level < MAX_DEPTH
           /\ (variant = "p2" => LimitedChunks(calls[k].url) # <<>>))
             => \A l \in 1..Len(Take(InternalLinks(calls[k].url), maxInternalLinks(variant))) :
                   InternalLinks(calls[k].url)[l] \in visitedUrls

C8_Rejected ==
    (reqCount > 0 /\ (~req.url.given \/ req.question = "" \/ ~req.url.parseable))
       => /\ pc = "done"
          /\ response.status = 400 /\ ~response.success
          /\ response.error \in {"Missing parameters", "Invalid URL"}
          /\ calls = <<>>

\* C8 witness: the request with the unparseable url has been answered
C8_Witness ==
    /\ pc = "done" /\ req.url = RawBad /\ req.question # ""
    /\ response = ErrorResponse(400, "Invalid URL")

C10_NamespaceIsolation ==
    /\ \A k \in 1..Len(store) : store[k].ns = store[k].by
    /\ \A k \in 1..Len(calls) :
          calls[k].kind \in {"query", "upsert"} => calls[k].ns = namespace
    /\ \A k \in 1..Len(context) : context[k].by = namespace

\* C10 witness: with two namespaces populated, a request has a non-empty context
C10_Witness ==
    /\ reqCount = 2 /\ context # <<>>
    /\ \E k \in 1..Len(store) : store[k].by # namespace
    /\ \E k \in 1..Len(store) : store[k].by = namespace

LongChunks(u) ==
    SelectSeq(ContentChunks(variant, u), LAMBDA c : ChunkLength(c) >= MIN_CHUNK_LENGTH)

\* the embedding and upsert calls ingestRecursive issued for page u
IngestCalls(u, kind) ==
    SelectSeq(calls, LAMBDA c : c.kind = kind /\ c.level >= 0 /\ c.url = u)

\* C12: every stored record holds a chunk of at least MIN_CHUNK_LENGTH
\* characters; a page none of whose chunks reaches the floor causes no
\* embedding, no upsert and no record, and part_001 embeds at most one
\* time per chunk that reaches the floor
C12_LengthFloor ==
    /\ \A k \in 1..Len(store) : ChunkLength(store[k].content) >= MIN_CHUNK_LENGTH
    /\ \A u \in visitedUrls :
          /\ LongChunks(u) = <<>> =>
                /\ IngestCalls(u, "embed") = <<>> /\ IngestCalls(u, "upsert") = <<>>
                /\ StoredOf(u) = <<>>
          /\ variant = "p1" => Len(IngestCalls(u, "embed")) <= Len(LongChunks(u))

\* C12 witness: the run is over, the page with 50 characters of content was
\* scraped and nothing of it is stored, while other pages are
C12_Witness ==
    /\ RunOver /\ store # <<>>
    /\ \E u \in scraped :
          /\ SiteText(u.n) = <<50>>
          /\ ContentChunks(variant, u) # <<>>
          /\ StoredOf(u) = <<>>

\* C13 (as claimed): any two calls sent through rateLimitedApiCall within the
\* last minute are at least minDelayBetweenCalls apart
C13_MinDelay ==
    \A i, j \in 1..Len(issued) :
       i < j => issued[i] - issued[j] >= minDelayBetweenCalls

\* C14 (as claimed): at most requestsPerMinute calls were sent through
\* rateLimitedApiCall within the last 60 seconds
C14_WindowCap == Len(issued) <= requestsPerMinute

\* C15: a 429 never reaches the caller of rateLimitedApiCall; the caller stays
\* inside the call, the cool-down timer runs for RATE_LIMIT_COOLDOWN, and the
\* same function is sent again no sooner than that after the 429
C15_RateLimitRetry ==
    \A c \in CallerIds :
       /\ callers[c].result \notin {"429", "highLoad"}
       /\ callers[c].sinceLimit # -1 => callers[c].pc # "idle"
       /\ callers[c].pc = "coolWait" =>
             callers[c].timer + callers[c].sinceLimit = RATE_LIMIT_COOLDOWN
       /\ callers[c].retryGap # -1 => callers[c].retryGap >= RATE_LIMIT_COOLDOWN
       /\ callers[c].pc = "inflight" => callers[c].sent = callers[c].fn

\* C15 witness: a call was answered 429, went out again after the cool-down
\* and gave its caller the value
C15_Witness ==
    \E c \in CallerIds :
       /\ callers[c].pc = "idle" /\ callers[c].result = "ok"
       /\ callers[c].retryGap >= RATE_LIMIT_COOLDOWN
       /\ remote.mode = "up"

\* C16 (as claimed): when the remote API answers 429 to every call, a
\* generateAnswer call that was answered 429 ends with the 'high load' answer
C16_DegradedWhenThrottled ==
    \A c \in CallerIds :
       (remote.mode = "throttled" /\ callers[c].pc = "coolWait"
          /\ callers[c].fn = "generate")
          ~> (callers[c].pc = "idle" /\ callers[c].result = "highLoad")

(* ------------------------------------------------------------------ *)
(* C17: every non-null result of normalizeUrl has the host (host name   *)
(* plus port) of baseUrl                                                *)
(* ------------------------------------------------------------------ *)
C17_SameHost ==
    (applied.fn = "normalizeUrl" /\ applied.out # Pending /\ applied.out[1] # Null)
       => HostOf(applied.out[1]) = HostOf(applied.args[1])

(* ------------------------------------------------------------------ *)
(* C18: normalizeUrl is idempotent: a non-null result n, normalized     *)
(* against any base on the host of n, is n again                        *)
(* ------------------------------------------------------------------ *)
C18_Idempotent ==
    applied.fn = "normalizeUrlAgain" => applied.out[1] = applied.args[2]

(* ------------------------------------------------------------------ *)
(* C19: the chunks of chunkTextBySize, joined in order with their       *)
(* separator, are the input text up to blanks: no character is dropped, *)
(* replaced or invented                                                 *)
(* ------------------------------------------------------------------ *)
RECURSIVE JoinChunks(_)
JoinChunks(chunks) ==
    IF chunks = <<>> THEN <<>>
    ELSE IF Len(chunks) = 1 THEN chunks[1]
    ELSE chunks[1] \o SentenceSeparator \o JoinChunks(Tail(chunks))

IsNotBlank(c) == c # " "

WithoutBlanks(s) == SelectSeq(s, IsNotBlank)

C19_RoundTrip ==
    (applied.fn = "chunkTextBySize" /\ applied.out # Pending) =>
       WithoutBlanks(JoinChunks(applied.out[1].chunks))
          = WithoutBlanks(applied.args[1].text)

(* ------------------------------------------------------------------ *)
(* C20: within one ingestion run no two upserted chunks get the same    *)
(* id, within a page and across the pages of the run                    *)
(* ------------------------------------------------------------------ *)
C20_UniqueIds ==
    \A a, b \in 1..Len(upsertIds) : a # b => upsertIds[a] # upsertIds[b]

\* C20 witness: a run has upserted two chunks at the same millisecond (the
\* ordinal tells them apart) and a third one at another time
C20_Witness ==
    \E a, b, c \in 1..Len(upsertIds) :
       /\ a # b
       /\ upsertIds[a][2] = upsertIds[b][2]
       /\ upsertIds[c][2] # upsertIds[a][2]

(* ------------------------------------------------------------------ *)
(* C21: for every fetched page at most maxInternalLinks of its links    *)
(* (5 in part_001, 3 in part_002) are passed to the recursive call      *)
(* ------------------------------------------------------------------ *)
C21_BoundedFanOut ==
    \A k \in 1..Len(stack) :
       stack[k].li <= (IF variant = "p1" THEN 5 ELSE 3)

\* C21 witness: an activation has passed as many links as the cap allows and
\* its page has more internal links than that
C21_Witness ==
    \E k \in 1..Len(stack) :
       /\ stack[k].phase = "links"
       /\ stack[k].li = maxInternalLinks(variant)
       /\ Len(InternalLinks(stack[k].url)) > maxInternalLinks(variant)

(* ------------------------------------------------------------------ *)
(* C22: every cache write carries the TTL of 3600 s, and a request for  *)
(* a (namespace, question) whose entry has outlived its TTL is not      *)
(* answered from the cache but goes on to recompute the answer          *)
(* ------------------------------------------------------------------ *)
\* the cache entries of the key of the current request
EntriesOfRequest == { e \in cache : e.ns = namespace /\ e.question = req.question }

C22_CacheExpiry ==
    [][/\ \A e \in cache' \ cache : e.expiry = now + 3600 * 1000
       /\ (pc = "cacheGet" /\ \A e \in EntriesOfRequest : e.expiry <= now)
             => (pc' = "stats" \/ response'.status = 500)]_vars

\* C22 witness: the entry of the request's key has expired, the request was
\* not answered from it and has recomputed an answer it is about to cache
C22_Witness ==
    /\ pc = "cacheSet"
    /\ \E i \in 1..Len(calls) : calls[i].kind = "cacheGet"
    /\ EntriesOfRequest # {}
    /\ \A e \in EntriesOfRequest : e.expiry <= now
    /\ response.success

(* ------------------------------------------------------------------ *)
(* C23: the embedding and upsert calls for the chunks of a page all     *)
(* come before the fetch of any page reached through its links: when a  *)
(* chunk of a page is embedded or upserted, the latest fetch so far is  *)
(* the fetch of that page                                               *)
(* ------------------------------------------------------------------ *)
IsChunkCall(c) == c.kind \in {"embed", "upsert"} /\ c.level >= 0

C23_ChunksBeforeLinks ==
    \A k \in 1..Len(calls) :
       IsChunkCall(calls[k]) =>
          \E j \in 1..(k - 1) :
             /\ calls[j].kind = "fetch" /\ calls[j].url = calls[k].url
             /\ \A m \in (j + 1)..(k - 1) : calls[m].kind # "fetch"

\* C23 witness: a page was fetched, one of its chunks was upserted, and after
\* that a page reached through its links was fetched one level deeper
C23_Witness ==
    \E a, b, c \in 1..Len(calls) :
       /\ a < b /\ b < c
       /\ calls[a].kind = "fetch"
       /\ calls[b].kind = "upsert" /\ calls[b].url = calls[a].url
       /\ calls[c].kind = "fetch" /\ calls[c].level = calls[a].level + 1
       /\ \E l \in 1..Len(InternalLinks(calls[a].url)) :
             InternalLinks(calls[a].url)[l] = calls[c].url

(* ------------------------------------------------------------------ *)
(* C24: in part_002 an embedding or storage error on a page drops one   *)
(* chunk only: after the run, at most one chunk of the page is missing  *)
(* from the index                                                       *)
(* ------------------------------------------------------------------ *)
C24_OnlyOneChunkDropped ==
    (variant = "p2" /\ RunOver) =>
       \A t \in ChunkErrors :
          Len(StoredOf(t.url)) >= Len(LimitedChunks(t.url)) - 1

(* ------------------------------------------------------------------ *)
(* C25: in index.js an embedding or upsert failure on a chunk does not  *)
(* abort the crawl: the request does not end in the 500 response of an  *)
(* error raised inside ingestRecursive                                  *)
(* ------------------------------------------------------------------ *)
C25_CrawlNotAborted ==
    ~(/\ pc = "done" /\ response.status = 500
      /\ ChunkErrors # {}
      /\ calls[Len(calls)].level >= 0)

(* ------------------------------------------------------------------ *)
(* C26: every chunk of chunkText(text, maxTokens) that holds more than  *)
(* one word has an estimated token cost ceil(length / 4) of at most     *)
(* maxTokens                                                            *)
(* ------------------------------------------------------------------ *)
C26_TokenBudget ==
    (applied.fn = "chunkText" /\ applied.out # Pending) =>
       \A k \in 1..Len(applied.out[1].chunks) :
          Len(applied.out[1].chunks[k]) > 1 =>
             estimateTokens(ChunkLength(applied.out[1].chunks[k]))
                <= applied.args[2].maxTokens

(* ------------------------------------------------------------------ *)
(* C27: every chunk of chunkTextBySize(text, maxSize) has at most       *)
(* maxSize bytes or is one single sentence; no sentence is split and    *)
(* the chunks hold the sentences of the text in their order             *)
(* ------------------------------------------------------------------ *)
\* the sentences of a string: its pieces between terminators, trimmed, the
\* empty ones left out
SentencesOf(s) ==
    LET pieces == SplitSentences(s)
    IN SelectSeq([i \in 1..Len(pieces) |-> Trim(pieces[i])], LAMBDA x : x # <<>>)

RECURSIVE SentencesOfAll(_)
SentencesOfAll(chunks) ==
    IF chunks = <<>> THEN <<>>
    ELSE SentencesOf(Head(chunks)) \o SentencesOfAll(Tail(chunks))

C27_SizeBound ==
    (applied.fn = "chunkTextBySize" /\ applied.out # Pending) =>
       LET chunks == applied.out[1].chunks
       IN /\ \A k \in 1..Len(chunks) :
                \/ Len(chunks[k]) <= applied.args[2].maxSize
                \/ Len(SentencesOf(chunks[k])) = 1
          /\ SentencesOfAll(chunks) = SentencesOf(applied.args[1].text)

\* C27 witness: a sentence longer than maxSize became a chunk of its own and
\* the text gave a further chunk
C27_Witness ==
    /\ applied.fn = "chunkTextBySize" /\ applied.out # Pending
    /\ Len(applied.out[1].chunks) >= 2
    /\ \E k \in 1..Len(applied.out[1].chunks) :
          Len(applied.out[1].chunks[k]) > applied.args[2].maxSize

(* ------------------------------------------------------------------ *)
(* C28: the context sent to the answer service is a prefix of the       *)
(* assembled context, shorter by a number of 1000-character steps, and  *)
(* when the service is called the estimate for question + context is    *)
(* at most MAX_TOKENS (part_001) or MAX_TOKENS - 1000 (part_002)        *)
(* ------------------------------------------------------------------ *)
C28_ContextTruncation ==
    (applied.fn = "generateAnswer" /\ applied.out # Pending /\ applied.out[1].sent) =>
       LET sentContext == applied.out[1].finalContext
           dropped == applied.args[1].context - sentContext.to
           v == applied.args[1].variant
       IN /\ sentContext.from = 0
          /\ dropped >= 0
          /\ dropped % 1000 = 0 \/ sentContext.to = 0
          /\ estimateTokens(applied.args[1].question + sentContext.to)
                <= (IF v = "p1" THEN MAX_TOKENS(v) ELSE MAX_TOKENS(v) - 1000)

\* C28 witness: the answer service is called with a non-empty context that
\* lost several steps of 1000 characters
C28_Witness ==
    /\ applied.fn = "generateAnswer" /\ applied.out # Pending /\ applied.out[1].sent
    /\ applied.out[1].finalContext.to > 0
    /\ applied.args[1].context - applied.out[1].finalContext.to >= 2000

\* C29: an error of a governed call that is not a rate-limit signal is thrown
\* to the caller of rateLimitedApiCall as it was caught, and the call is not
\* made again: the caller has it at once, with no wait and no second request
C29_RethrownUnchanged ==
    \A c \in CallerIds :
       callers[c].caught \notin {"none", "429"} =>
          /\ callers[c].pc = "idle"
          /\ callers[c].thrown = callers[c].caught

\* C29 witness: a call answered 500 has ended with that error at its caller
C29_Witness ==
    \E c \in CallerIds :
       /\ callers[c].caught = "500" /\ callers[c].thrown = "500"
       /\ callers[c].pc = "idle" /\ callers[c].sent = "embed"
       /\ callers[c].result = "500"

(* ------------------------------------------------------------------ *)
(* C30 (as claimed): a non-null result of normalizeUrl has no query and *)
(* no fragment, whatever the base URL and the link                      *)
(* ------------------------------------------------------------------ *)
C30_NoQueryNoFragment ==
    (applied.fn = "normalizeUrl" /\ applied.out # Pending /\ applied.out[1] # Null)
       => /\ applied.out[1].query = ""
          /\ applied.out[1].hash = ""

(* ------------------------------------------------------------------ *)
(* C31: extractContent folds the JSON-LD blocks in document order: each *)
(* key has the value of the last well-formed block that carries it, a   *)
(* malformed block changes nothing, and extractContent returns only     *)
(* after the last block                                                 *)
(* ------------------------------------------------------------------ *)
\* the blocks before element number n that parse and carry key k
CarriersOf(scripts, n, k) ==
    { i \in 1..(n - 1) : scripts[i].kind # "malformed" /\ scripts[i].props[k] # Undefined }

C31_LaterBlockWins ==
    (applied.fn = "extractContent" /\ applied.out # Pending) =>
       LET scripts == applied.args[1].scripts
           contentObj == applied.out[1]
       IN /\ \A k \in JsonKeys :
                LET carriers == CarriersOf(scripts, contentObj.element, k)
                IN contentObj.structuredData[k] =
                      IF carriers = {} THEN Undefined
                      ELSE scripts[CHOOSE i \in carriers : \A j \in carriers : j <= i].props[k]
          /\ contentObj.returned => contentObj.element = Len(scripts) + 1

\* C31 witness: a page whose first and last block give different values to one
\* key, with a malformed block between them, has been extracted
C31_Witness ==
    /\ applied.fn = "extractContent" /\ applied.out # Pending
    /\ applied.out[1].returned
    /\ Len(applied.args[1].scripts) = 3
    /\ applied.args[1].scripts[2].kind = "malformed"
    /\ applied.args[1].scripts[1].props["name"] = "a"
    /\ applied.args[1].scripts[3].props["name"] = "b"
    /\ applied.args[1].scripts[1].props["@type"] = "a"
    /\ applied.out[1].structuredData["name"] = "b"
    /\ applied.out[1].structuredData["@type"] = "a"

(* ------------------------------------------------------------------ *)
(* C32 (as claimed): the trimming loop of generateAnswer ends for every *)
(* question and context, and the answer service is called               *)
(* ------------------------------------------------------------------ *)
C32_TrimTerminates ==
    [](applied.fn = "generateAnswer"
          => <>(/\ applied.fn = "generateAnswer"
                /\ applied.out # Pending
                /\ applied.out[1].sent))

(* ------------------------------------------------------------------ *)
(* C35 (as claimed): when the start URL could not be fetched and the    *)
(* namespace holds nothing, no answer is cached for the request's       *)
(* (namespace, question)                                                *)
(* ------------------------------------------------------------------ *)
C35_NoCacheAfterFailedCrawl ==
    (reported = 0 /\ FetchCount(url) >= 1 /\ scraped = {} /\ VectorCount(namespace) = 0)
       => \A e \in cache : ~(e.ns = namespace /\ e.question = req.question)

(* ------------------------------------------------------------------ *)
(* C33 (as claimed): of two requests for one URL handled at the same    *)
(* time while the namespace is empty, at most one runs the crawl, and   *)
(* no chunk of a page is stored twice in the namespace                  *)
(* ------------------------------------------------------------------ *)
\* the two activations of the handler, each seen from the other
HandlerPairs == { <<Running, eventLoop.waiting>>, <<eventLoop.waiting, Running>> }

\* the activation has fetched a page
HasCrawled(h) == \E k \in 1..Len(h.calls) : h.calls[k].kind = "fetch"

C33_SingleCrawl ==
    /\ ~(/\ Running.namespace = eventLoop.waiting.namespace
         /\ HasCrawled(Running) /\ HasCrawled(eventLoop.waiting))
    /\ \A a, b \in 1..Len(store) :
          (store[a].ns = store[b].ns /\ store[a].url = store[b].url /\ store[a].i = store[b].i)
             => a = b

(* ------------------------------------------------------------------ *)
(* C34 (as claimed): a request that skipped ingestion because the       *)
(* vector count was not zero has not queried the namespace while the    *)
(* other request is still ingesting into it                             *)
(* ------------------------------------------------------------------ *)
C34_QueryAfterIngestion ==
    \A p \in HandlerPairs :
       ~(/\ p[1].reported > 0
         /\ \E k \in 1..Len(p[1].calls) : p[1].calls[k].kind = "query"
         /\ p[2].pc = "ingest"
         /\ p[2].namespace = p[1].namespace)

(* ------------------------------------------------------------------ *)
(* C36 (as claimed): every call through rateLimitedApiCall comes back   *)
(* to its caller, with a value or an exception, also when the remote    *)
(* API answers 429 to every attempt                                     *)
(* ------------------------------------------------------------------ *)
C36_CallReturns ==
    \A c \in CallerIds :
       (callers[c].pc # "idle") ~> (callers[c].pc = "idle" /\ callers[c].result # "none")

(* ------------------------------------------------------------------ *)
(* C37: an ingestion run fetches no page below depth MAX_DEPTH, at most *)
(* maxInternalLinks^d pages at depth d, so at most 156 (fan-out 5) or   *)
(* 40 (fan-out 3) pages in all, and it ends, on a cyclic link graph and *)
(* with failing fetches                                                 *)
(* ------------------------------------------------------------------ *)
FetchesAt(d) == Len(SelectSeq(calls, LAMBDA c : c.kind = "fetch" /\ c.level = d))

RECURSIVE FanOutSum(_, _)
FanOutSum(fanOut, d) == IF d < 0 THEN 0 ELSE fanOut ^ d + FanOutSum(fanOut, d - 1)

C38_LinksFollowedWithoutContent ==
    (variant = "p2" /\ RunOver) =>
       \A k \in 1..Len(calls) :
          (/\ calls[k].kind = "fetch" /\ calls[k].url \in scraped
           /\ calls[k].level < MAX_DEPTH
           /\ LimitedChunks(calls[k].url) = <<>>)
             => \A l \in 1..Len(Take(InternalLinks(calls[k].url), maxInternalLinks("p2"))) :
                   InternalLinks(calls[k].url)[l] \in visitedUrls

(* ------------------------------------------------------------------ *)
(* C39 (as claimed): index.js, after a crawl every URL within MAX_DEPTH *)
(* links of the start URL, along pages that were fetched successfully,  *)
(* has been fetched                                                     *)
(* ------------------------------------------------------------------ *)
\* the URLs at most k links away from the start URL
RECURSIVE WithinLinks(_)
WithinLinks(k) ==
    IF k = 0 THEN {url}
    ELSE LET near == WithinLinks(k - 1)
         IN near \cup UNION { { InternalLinks(u)[l] : l \in 1..Len(InternalLinks(u)) } :
                                 u \in near \cap scraped }

C39_AllNearPagesFetched ==
    (variant = "p0" /\ pc = "chatQuery" /\ stack = <<>>) =>
       \A u \in WithinLinks(MAX_DEPTH) : FetchCount(u) >= 1

(* ------------------------------------------------------------------ *)
(* C40 (as claimed): the crawl started by main() fetches no page more   *)
(* than MAX_DEPTH links below the start URL                             *)
(* ------------------------------------------------------------------ *)
C40_DepthStopsCrawl ==
    variant = "script" =>
       \A k \in 1..Len(calls) : calls[k].kind = "fetch" => calls[k].level <= MAX_DEPTH
====
